---- MODULE Spec2Model ----
(***************************************************************************)
(* The occupation resolution and statistics pipeline of the job analyzer:  *)
(* bls_job_mapper.py (title normalizer, occupation resolver, statistics    *)
(* store adapter) and bls_connector.py (upstream fetcher, response cache). *)
(*                                                                         *)
(* A Python str is modelled as a sequence of one-character strings, so     *)
(* that lower(), strip(), endswith(), slicing and the `in` substring test   *)
(* are computed character by character as the interpreter computes them.   *)
(***************************************************************************)
EXTENDS Integers, Sequences, FiniteSets, TLC

VARIABLES
    \* standardize_job_title, applied to one drawn input
    nBase, nChain, nCase, nPad, nPc, nOnce, nTwice,
    \* the classification table, and the last find_occupation_code call:
    \* its argument and what it returned
    JOB_TITLE_TO_SOC, rTitle, rResult,
    \* the store: whether an engine was created, the rows of bls_job_data,
    \* the next serial id, the clock, and the last store call
    engine, bls_job_data, nextId, now, clockSteps, sLast,
    \* the fetcher: the credential in the environment, the response cache,
    \* the last fetcher call and the upstream responses received so far
    BLS_API_KEY, _api_cache, fLast, received,
    \* calculate_ai_risk, applied to one drawn title and category
    kTitle, kCategory, kResult,
    \* concurrent find_occupation_code calls, one per thread: where the call is,
    \* its job_title and std_title, the position and the recorded size of its dict
    \* iterator, what it returned; and the entries the fallback has inserted
    tPc, tTitle, tStd, tPos, tUsed, tResult, discovered,
    \* concurrent save_bls_data_to_db calls, one connection each: where the call
    \* is, its data, what its SELECT found, the rows its UPDATE holds, the row its
    \* INSERT wrote, the calls it has made; and the data of the committed calls
    wPc, wData, wFound, wLocked, wNew, wCalls, saved,
    \* the last fetch_bls_data or get_complete_job_data call: its arguments, the
    \* calls it made, what they returned and what it returned
    pLast,
    \* a function of job_api_integration_database_only.py applied to drawn
    \* arguments: a job category, two employment figures, a number of years,
    \* whether bls_data has its keys; and the call made and what it returned
    jCategory, jCurrent, jProjected, jYears, jKeys, jLast,
    \* get_complete_job_data called from several threads: where each call is, its
    \* title, what its first resolution returned; and the last call that returned
    gPc, gTitle, gFirst, gLast

normVars == <<nBase, nChain, nCase, nPad, nPc, nOnce, nTwice>>

resolverVars == <<JOB_TITLE_TO_SOC, rTitle, rResult>>

storeVars == <<engine, bls_job_data, nextId, now, clockSteps, sLast>>

fetchVars == <<BLS_API_KEY, _api_cache, fLast, received>>

riskVars == <<kTitle, kCategory, kResult>>

threadVars == <<tPc, tTitle, tStd, tPos, tUsed, tResult, discovered>>

saveVars == <<wPc, wData, wFound, wLocked, wNew, wCalls, saved>>

pipeVars == <<pLast>>

formatVars == <<jCategory, jCurrent, jProjected, jYears, jKeys, jLast>>

callVars == <<gPc, gTitle, gFirst, gLast>>

vars == <<normVars, resolverVars, storeVars, fetchVars, riskVars, threadVars, saveVars, pipeVars, formatVars, callVars>>

---------------------------------------------------------------------------
(* str methods *)

LowerOf ==
  [A |-> "a", B |-> "b", C |-> "c", D |-> "d", E |-> "e", F |-> "f", G |-> "g",
     H |-> "h", I |-> "i", J |-> "j", K |-> "k", L |-> "l", M |-> "m",
     N |-> "n", O |-> "o", P |-> "p", Q |-> "q", R |-> "r", S |-> "s",
     T |-> "t", U |-> "u", V |-> "v", W |-> "w", X |-> "x", Y |-> "y",
     Z |-> "z"]

UpperOf ==
  [a |-> "A", b |-> "B", c |-> "C", d |-> "D", e |-> "E", f |-> "F", g |-> "G",
     h |-> "H", i |-> "I", j |-> "J", k |-> "K", l |-> "L", m |-> "M",
     n |-> "N", o |-> "O", p |-> "P", q |-> "Q", r |-> "R", s |-> "S",
     t |-> "T", u |-> "U", v |-> "V", w |-> "W", x |-> "X", y |-> "Y",
     z |-> "Z"]

\* str.lower(), one character
LowerChar(c) == IF c \in DOMAIN LowerOf THEN LowerOf[c] ELSE c

\* str.upper(), one character
UpperChar(c) == IF c \in DOMAIN UpperOf THEN UpperOf[c] ELSE c

\* the first n characters of s, lower-cased
RECURSIVE LowerPrefix(_, _)
LowerPrefix(s, n) ==
  IF n = 0 THEN <<>> ELSE Append(LowerPrefix(s, n - 1), LowerChar(s[n]))

lower(s) == LowerPrefix(s, Len(s))

\* the first n characters of s, upper-cased
RECURSIVE UpperPrefix(_, _)
UpperPrefix(s, n) ==
  IF n = 0 THEN <<>> ELSE Append(UpperPrefix(s, n - 1), UpperChar(s[n]))

upper(s) == UpperPrefix(s, Len(s))

\* the characters str.strip() removes
Whitespace == {" ", "\t", "\n"}

RECURSIVE lstrip(_)
lstrip(s) ==
  IF s # <<>> /\ Head(s) \in Whitespace THEN lstrip(Tail(s)) ELSE s

RECURSIVE rstrip(_)
rstrip(s) ==
  IF s # <<>> /\ s[Len(s)] \in Whitespace
  THEN rstrip(SubSeq(s, 1, Len(s) - 1))
  ELSE s

strip(s) == rstrip(lstrip(s))

endswith(s, suffix) ==
  /\ Len(suffix) <= Len(s)
  /\ \A j \in 1..Len(suffix) : s[Len(s) - Len(suffix) + j] = suffix[j]

startswith(s, prefix) ==
  /\ Len(prefix) <= Len(s)
  /\ \A j \in 1..Len(prefix) : s[j] = prefix[j]

\* Python's `a in b` on two strings
Contains(b, a) ==
  \E i \in 0..(Len(b) - Len(a)) : \A j \in 1..Len(a) : b[i + j] = a[j]

---------------------------------------------------------------------------
(* standardize_job_title *)

suffixes ==
  << <<" ","i">>,
     <<" ","i","i">>,
     <<" ","i","i","i">>,
     <<" ","i","v">>,
     <<" ","v">>,
     <<" ","s","p","e","c","i","a","l","i","s","t">>,
     <<" ","a","s","s","i","s","t","a","n","t">>,
     <<" ","a","s","s","o","c","i","a","t","e">>,
     <<" ","s","e","n","i","o","r">>,
     <<" ","j","u","n","i","o","r">>,
     <<" ","l","e","a","d">> >>

\* the for loop over suffixes from index i: the first suffix the string ends
\* with is cut off and the loop breaks
RECURSIVE StripFirstSuffix(_, _)
StripFirstSuffix(standardized, i) ==
  IF i > Len(suffixes) THEN standardized
  ELSE IF endswith(standardized, suffixes[i])
       THEN SubSeq(standardized, 1, Len(standardized) - Len(suffixes[i]))
       ELSE StripFirstSuffix(standardized, i + 1)

\* a slip the idempotence check must notice: surrounding whitespace trimmed
\* after the suffix loop instead of before it
standardize_job_title_StripLast(title) ==
  strip(StripFirstSuffix(lower(title), 1))

standardize_job_title(title) ==
  StripFirstSuffix(strip(lower(title)), 1)

---------------------------------------------------------------------------
(* Inputs of the normalizer: a base, a chain of suffix tokens, a letter    *)
(* case and surrounding whitespace.                                        *)

MaxSuffixTokens == 2

NormBases ==
  { <<>>,
    <<"N","u","r","s","e">>,
    <<"S","o","f","t","w","a","r","e"," ","E","n","g","i","n","e","e","r">>,
    <<"s","e","n","i","o","r">>,
    <<"T","e","a","m">>,
    <<"N","u","r","s","e"," ">>,
    <<"E","x","e","c","u","t","i","v","e"," ","A","s","s","i","s","t","a","n","t">> }

RECURSIVE SuffixChains(_)
SuffixChains(n) ==
  IF n = 0 THEN { <<>> }
  ELSE LET shorter == SuffixChains(n - 1)
       IN  shorter \cup { Append(c, i) : c \in shorter, i \in 1..Len(suffixes) }

RECURSIVE AppendSuffixes(_, _)
AppendSuffixes(s, chain) ==
  IF chain = <<>> THEN s
  ELSE AppendSuffixes(s \o suffixes[Head(chain)], Tail(chain))

LetterCases == {"asis", "lower", "upper"}

InCase(s, case) ==
  CASE case = "lower" -> lower(s)
    [] case = "upper" -> upper(s)
    [] OTHER -> s

\* surrounding whitespace: <<left run, right run>>
Paddings ==
  { << <<>>, <<>> >>,
    << <<" ">>, <<" ">> >>,
    << <<"\t">>, <<" ", "\n">> >> }

NormTitle(base, chain, case, pad) ==
  pad[1] \o InCase(AppendSuffixes(base, chain), case) \o pad[2]

nTitle == NormTitle(nBase, nChain, nCase, nPad)

NormInit ==
  /\ nBase \in NormBases
  /\ nChain \in SuffixChains(MaxSuffixTokens)
  /\ nCase \in LetterCases
  /\ nPad \in Paddings
  /\ nPc = "drawn"
  /\ nOnce = <<>>
  /\ nTwice = <<>>

\* no normalizer input drawn: the other specifications start here
NormIdle ==
  /\ nBase = <<>>
  /\ nChain = <<>>
  /\ nCase = "asis"
  /\ nPad = << <<>>, <<>> >>
  /\ nPc = "idle"
  /\ nOnce = <<>>
  /\ nTwice = <<>>

---------------------------------------------------------------------------
(* Classification table, bls_job_mapper.py *)

\* JOB_TITLE_TO_SOC as the module is loaded. A Python dict keeps its keys in
\* insertion order: the table is the sequence of its items.
STATIC_JOB_TITLE_TO_SOC ==
  <<
    [key |-> <<"s","o","f","t","w","a","r","e"," ","d","e","v","e","l","o","p","e","r">>,
     code |-> <<"1","5","-","1","2","5","2">>],
    [key |-> <<"s","o","f","t","w","a","r","e"," ","e","n","g","i","n","e","e","r">>,
     code |-> <<"1","5","-","1","2","5","2">>],
    [key |-> <<"p","r","o","g","r","a","m","m","e","r">>,
     code |-> <<"1","5","-","1","2","5","1">>],
    [key |-> <<"w","e","b"," ","d","e","v","e","l","o","p","e","r">>,
     code |-> <<"1","5","-","1","2","5","4">>],
    [key |-> <<"r","e","g","i","s","t","e","r","e","d"," ","n","u","r","s","e">>,
     code |-> <<"2","9","-","1","1","4","1">>],
    [key |-> <<"n","u","r","s","e">>,
     code |-> <<"2","9","-","1","1","4","1">>],
    [key |-> <<"t","e","a","c","h","e","r">>,
     code |-> <<"2","5","-","2","0","2","1">>],
    [key |-> <<"e","l","e","m","e","n","t","a","r","y"," ","s","c","h","o","o","l"," ","t","e","a","c","h","e","r">>,
     code |-> <<"2","5","-","2","0","2","1">>],
    [key |-> <<"h","i","g","h"," ","s","c","h","o","o","l"," ","t","e","a","c","h","e","r">>,
     code |-> <<"2","5","-","2","0","3","1">>],
    [key |-> <<"l","a","w","y","e","r">>,
     code |-> <<"2","3","-","1","0","1","1">>],
    [key |-> <<"a","t","t","o","r","n","e","y">>,
     code |-> <<"2","3","-","1","0","1","1">>],
    [key |-> <<"d","o","c","t","o","r">>,
     code |-> <<"2","9","-","1","2","2","1">>],
    [key |-> <<"p","h","y","s","i","c","i","a","n">>,
     code |-> <<"2","9","-","1","2","2","1">>],
    [key |-> <<"a","c","c","o","u","n","t","a","n","t">>,
     code |-> <<"1","3","-","2","0","1","1">>],
    [key |-> <<"p","r","o","j","e","c","t"," ","m","a","n","a","g","e","r">>,
     code |-> <<"1","1","-","3","0","2","1">>],
    [key |-> <<"p","r","o","d","u","c","t"," ","m","a","n","a","g","e","r">>,
     code |-> <<"1","1","-","2","0","2","1">>],
    [key |-> <<"m","a","r","k","e","t","i","n","g"," ","m","a","n","a","g","e","r">>,
     code |-> <<"1","1","-","2","0","2","1">>],
    [key |-> <<"r","e","t","a","i","l"," ","s","a","l","e","s","p","e","r","s","o","n">>,
     code |-> <<"4","1","-","2","0","3","1">>],
    [key |-> <<"c","a","s","h","i","e","r">>,
     code |-> <<"4","1","-","2","0","1","1">>],
    [key |-> <<"c","u","s","t","o","m","e","r"," ","s","e","r","v","i","c","e"," ","r","e","p","r","e","s","e","n","t","a","t","i","v","e">>,
     code |-> <<"4","3","-","4","0","5","1">>],
    [key |-> <<"t","r","u","c","k"," ","d","r","i","v","e","r">>,
     code |-> <<"5","3","-","3","0","3","2">>],
    [key |-> <<"r","e","c","e","p","t","i","o","n","i","s","t">>,
     code |-> <<"4","3","-","4","1","7","1">>],
    [key |-> <<"d","a","t","a"," ","s","c","i","e","n","t","i","s","t">>,
     code |-> <<"1","5","-","2","0","5","1">>],
    [key |-> <<"d","a","t","a"," ","a","n","a","l","y","s","t">>,
     code |-> <<"1","5","-","2","0","4","1">>],
    [key |-> <<"b","u","s","i","n","e","s","s"," ","a","n","a","l","y","s","t">>,
     code |-> <<"1","3","-","1","1","1","1">>],
    [key |-> <<"f","i","n","a","n","c","i","a","l"," ","a","n","a","l","y","s","t">>,
     code |-> <<"1","3","-","2","0","5","1">>],
    [key |-> <<"h","u","m","a","n"," ","r","e","s","o","u","r","c","e","s"," ","s","p","e","c","i","a","l","i","s","t">>,
     code |-> <<"1","3","-","1","0","7","1">>],
    [key |-> <<"g","r","a","p","h","i","c"," ","d","e","s","i","g","n","e","r">>,
     code |-> <<"2","7","-","1","0","2","4">>],
    [key |-> <<"p","o","l","i","c","e"," ","o","f","f","i","c","e","r">>,
     code |-> <<"3","3","-","3","0","5","1">>],
    [key |-> <<"c","h","e","f">>,
     code |-> <<"3","5","-","1","0","1","1">>],
    [key |-> <<"c","o","o","k">>,
     code |-> <<"3","5","-","2","0","1","4">>],
    [key |-> <<"w","a","i","t","e","r">>,
     code |-> <<"3","5","-","3","0","3","1">>],
    [key |-> <<"w","a","i","t","r","e","s","s">>,
     code |-> <<"3","5","-","3","0","3","1">>],
    [key |-> <<"j","a","n","i","t","o","r">>,
     code |-> <<"3","7","-","2","0","1","1">>],
    [key |-> <<"a","d","m","i","n","i","s","t","r","a","t","i","v","e"," ","a","s","s","i","s","t","a","n","t">>,
     code |-> <<"4","3","-","6","0","1","1">>],
    [key |-> <<"e","x","e","c","u","t","i","v","e"," ","a","s","s","i","s","t","a","n","t">>,
     code |-> <<"4","3","-","6","0","1","1">>],
    [key |-> <<"d","e","n","t","a","l"," ","h","y","g","i","e","n","i","s","t">>,
     code |-> <<"2","9","-","1","2","9","2">>],
    [key |-> <<"e","l","e","c","t","r","i","c","i","a","n">>,
     code |-> <<"4","7","-","2","1","1","1">>],
    [key |-> <<"p","l","u","m","b","e","r">>,
     code |-> <<"4","7","-","2","1","5","2">>],
    [key |-> <<"c","a","r","p","e","n","t","e","r">>,
     code |-> <<"4","7","-","2","0","3","1">>],
    [key |-> <<"c","o","n","s","t","r","u","c","t","i","o","n"," ","w","o","r","k","e","r">>,
     code |-> <<"4","7","-","2","0","6","1">>],
    [key |-> <<"m","e","c","h","a","n","i","c">>,
     code |-> <<"4","9","-","3","0","2","3">>],
    [key |-> <<"a","u","t","o","m","o","t","i","v","e"," ","m","e","c","h","a","n","i","c">>,
     code |-> <<"4","9","-","3","0","2","3">>],
    [key |-> <<"t","a","x","i"," ","d","r","i","v","e","r">>,
     code |-> <<"5","3","-","3","0","5","4">>],
    [key |-> <<"u","b","e","r"," ","d","r","i","v","e","r">>,
     code |-> <<"5","3","-","3","0","5","4">>],
    [key |-> <<"j","o","u","r","n","a","l","i","s","t">>,
     code |-> <<"2","7","-","3","0","2","3">>],
    [key |-> <<"r","e","p","o","r","t","e","r">>,
     code |-> <<"2","7","-","3","0","2","3">>],
    [key |-> <<"w","r","i","t","e","r">>,
     code |-> <<"2","7","-","3","0","4","2">>],
    [key |-> <<"e","d","i","t","o","r">>,
     code |-> <<"2","7","-","3","0","4","1">>],
    [key |-> <<"p","h","o","t","o","g","r","a","p","h","e","r">>,
     code |-> <<"2","7","-","4","0","2","1">>],
    [key |-> <<"c","o","u","r","t"," ","r","e","p","o","r","t","e","r">>,
     code |-> <<"2","3","-","2","0","1","1">>],
    [key |-> <<"s","t","e","n","o","g","r","a","p","h","e","r">>,
     code |-> <<"2","3","-","2","0","1","1">>],
    [key |-> <<"d","i","g","i","t","a","l"," ","c","o","u","r","t"," ","r","e","p","o","r","t","e","r">>,
     code |-> <<"2","3","-","2","0","1","1">>],
    [key |-> <<"t","r","a","v","e","l"," ","a","g","e","n","t">>,
     code |-> <<"4","1","-","4","0","1","2">>]
  >>

SOC_TO_CATEGORY ==
  <<
    [prefix |-> <<"1","5","-">>, category |-> "Computer and Mathematical"],
    [prefix |-> <<"1","1","-">>, category |-> "Management"],
    [prefix |-> <<"1","3","-">>, category |-> "Business and Financial"],
    [prefix |-> <<"1","7","-">>, category |-> "Architecture and Engineering"],
    [prefix |-> <<"1","9","-">>, category |-> "Life, Physical, and Social Science"],
    [prefix |-> <<"2","1","-">>, category |-> "Community and Social Service"],
    [prefix |-> <<"2","3","-">>, category |-> "Legal"],
    [prefix |-> <<"2","5","-">>, category |-> "Educational Instruction"],
    [prefix |-> <<"2","7","-">>, category |-> "Arts, Design, Entertainment, Sports, and Media"],
    [prefix |-> <<"2","9","-">>, category |-> "Healthcare Practitioners"],
    [prefix |-> <<"3","1","-">>, category |-> "Healthcare Support"],
    [prefix |-> <<"3","3","-">>, category |-> "Protective Service"],
    [prefix |-> <<"3","5","-">>, category |-> "Food Preparation and Serving"],
    [prefix |-> <<"3","7","-">>, category |-> "Building and Grounds Cleaning and Maintenance"],
    [prefix |-> <<"3","9","-">>, category |-> "Personal Care and Service"],
    [prefix |-> <<"4","1","-">>, category |-> "Sales and Related"],
    [prefix |-> <<"4","3","-">>, category |-> "Office and Administrative Support"],
    [prefix |-> <<"4","5","-">>, category |-> "Farming, Fishing, and Forestry"],
    [prefix |-> <<"4","7","-">>, category |-> "Construction and Extraction"],
    [prefix |-> <<"4","9","-">>, category |-> "Installation, Maintenance, and Repair"],
    [prefix |-> <<"5","1","-">>, category |-> "Production"],
    [prefix |-> <<"5","3","-">>, category |-> "Transportation and Material Moving"]
  >>

\* the sample SOC list search_occupations looks through, bls_connector.py
soc_codes ==
  <<
    [code |-> <<"1","1","-","1","0","1","1">>,
     title |-> <<"C","h","i","e","f"," ","E","x","e","c","u","t","i","v","e","s">>],
    [code |-> <<"1","1","-","2","0","1","1">>,
     title |-> <<"A","d","v","e","r","t","i","s","i","n","g"," ","a","n","d"," ","P","r","o","m","o","t","i","o","n","s"," ","M","a","n","a","g","e","r","s">>],
    [code |-> <<"1","1","-","3","0","3","1">>,
     title |-> <<"F","i","n","a","n","c","i","a","l"," ","M","a","n","a","g","e","r","s">>],
    [code |-> <<"1","5","-","1","2","5","2">>,
     title |-> <<"S","o","f","t","w","a","r","e"," ","D","e","v","e","l","o","p","e","r","s">>],
    [code |-> <<"1","5","-","1","2","1","1">>,
     title |-> <<"C","o","m","p","u","t","e","r"," ","S","y","s","t","e","m","s"," ","A","n","a","l","y","s","t","s">>],
    [code |-> <<"1","5","-","1","2","3","1">>,
     title |-> <<"C","o","m","p","u","t","e","r"," ","N","e","t","w","o","r","k"," ","S","u","p","p","o","r","t"," ","S","p","e","c","i","a","l","i","s","t","s">>],
    [code |-> <<"2","5","-","1","0","1","1">>,
     title |-> <<"B","u","s","i","n","e","s","s"," ","T","e","a","c","h","e","r","s",","," ","P","o","s","t","s","e","c","o","n","d","a","r","y">>],
    [code |-> <<"2","5","-","2","0","2","1">>,
     title |-> <<"E","l","e","m","e","n","t","a","r","y"," ","S","c","h","o","o","l"," ","T","e","a","c","h","e","r","s">>],
    [code |-> <<"2","9","-","1","0","5","1">>,
     title |-> <<"P","h","a","r","m","a","c","i","s","t","s">>],
    [code |-> <<"2","9","-","1","1","4","1">>,
     title |-> <<"R","e","g","i","s","t","e","r","e","d"," ","N","u","r","s","e","s">>],
    [code |-> <<"4","1","-","3","0","9","1">>,
     title |-> <<"S","a","l","e","s"," ","R","e","p","r","e","s","e","n","t","a","t","i","v","e","s"," ","o","f"," ","S","e","r","v","i","c","e","s">>],
    [code |-> <<"4","3","-","4","0","5","1">>,
     title |-> <<"C","u","s","t","o","m","e","r"," ","S","e","r","v","i","c","e"," ","R","e","p","r","e","s","e","n","t","a","t","i","v","e","s">>],
    [code |-> <<"4","3","-","9","0","2","1">>,
     title |-> <<"D","a","t","a"," ","E","n","t","r","y"," ","K","e","y","e","r","s">>],
    [code |-> <<"5","3","-","3","0","3","2">>,
     title |-> <<"H","e","a","v","y"," ","a","n","d"," ","T","r","a","c","t","o","r","-","T","r","a","i","l","e","r"," ","T","r","u","c","k"," ","D","r","i","v","e","r","s">>]
  >>

UNKNOWN_CODE == <<"0","0","-","0","0","0","0">>

---------------------------------------------------------------------------
(* dict operations on a sequence of [key, code] items *)

\* key in d
DictHas(d, k) == \E i \in 1..Len(d) : d[i].key = k

\* d[key]
DictGet(d, k) == d[CHOOSE i \in 1..Len(d) : d[i].key = k].code

\* a new key put in front of the items the table has
DictSet_Front(d, k, v) ==
  IF DictHas(d, k) THEN d ELSE << [key |-> k, code |-> v] >> \o d

\* a slip the growth check must notice: the name rebound to a new dict that
\* holds the one item, instead of an item assignment
DictSet_Rebind(d, k, v) == << [key |-> k, code |-> v] >>

\* d[key] = value: an existing key keeps its place and takes the value, a
\* new key goes last
DictSet(d, k, v) ==
  IF DictHas(d, k)
  THEN [i \in 1..Len(d) |-> IF d[i].key = k THEN [key |-> k, code |-> v] ELSE d[i]]
  ELSE Append(d, [key |-> k, code |-> v])

---------------------------------------------------------------------------
(* get_job_category, search_occupations, find_occupation_code *)

\* the for loop over SOC_TO_CATEGORY.items() from index i
RECURSIVE CategoryFrom(_, _)
CategoryFrom(occupation_code, i) ==
  IF i > Len(SOC_TO_CATEGORY) THEN "General"
  ELSE IF startswith(occupation_code, SOC_TO_CATEGORY[i].prefix)
       THEN SOC_TO_CATEGORY[i].category
       ELSE CategoryFrom(occupation_code, i + 1)

get_job_category(occupation_code) == CategoryFrom(occupation_code, 1)

\* a slip: the query matched as given, without query.lower()
search_occupations_CaseSensitive(query) ==
  SelectSeq(soc_codes, LAMBDA item : Contains(lower(item.title), query))

search_occupations(query) ==
  SelectSeq(soc_codes, LAMBDA item : Contains(lower(item.title), lower(query)))

\* a slip: the direct lookup left out, every title going to the partial scan
DirectHit_Never(table, std_title) == FALSE

\* std_title in JOB_TITLE_TO_SOC
DirectHit(table, std_title) == DictHas(table, std_title)

\* a slip: the containment tested in one direction only
PartialMatch_KeyInTitle(key, std_title) == Contains(std_title, key)

\* key in std_title or std_title in key
PartialMatch(key, std_title) ==
  Contains(std_title, key) \/ Contains(key, std_title)

\* a slip: the scan started from the newest item
RECURSIVE ScanBackFrom(_, _, _)
ScanBackFrom(table, std_title, i) ==
  IF i < 1 THEN 0
  ELSE IF PartialMatch(table[i].key, std_title) THEN i
       ELSE ScanBackFrom(table, std_title, i - 1)

FirstPartialMatch_Newest(table, std_title) ==
  ScanBackFrom(table, std_title, Len(table))

\* the for loop over JOB_TITLE_TO_SOC.items() from index i: the index of the
\* first item that matches, 0 when the loop runs out
RECURSIVE ScanFrom(_, _, _)
ScanFrom(table, std_title, i) ==
  IF i > Len(table) THEN 0
  ELSE IF PartialMatch(table[i].key, std_title) THEN i
       ELSE ScanFrom(table, std_title, i + 1)

FirstPartialMatch(table, std_title) == ScanFrom(table, std_title, 1)

\* a discovery kept under the title as the search gave it
DiscoveryKey_Raw(title) == title

\* the key a discovery is added under: standardize_job_title(std_title)
DiscoveryKey(title) == standardize_job_title(title)

\* find_occupation_code(job_title) on the table as it is: the tuple it
\* returns, the path it took, and the table it leaves
find_occupation_code(table, job_title) ==
  LET std_title == standardize_job_title(job_title)
      hit == FirstPartialMatch(table, std_title)
      matches == search_occupations(job_title)
  IN  IF DirectHit(table, std_title)
      THEN [soc_code |-> DictGet(table, std_title),
            title |-> job_title,
            category |-> get_job_category(DictGet(table, std_title)),
            path |-> "direct",
            table |-> table]
      ELSE IF hit # 0
      THEN [soc_code |-> table[hit].code,
            title |-> job_title,
            category |-> get_job_category(table[hit].code),
            path |-> "partial",
            table |-> table]
      ELSE IF matches # <<>>
      THEN LET best_match == matches[1]
           IN  [soc_code |-> best_match.code,
                title |-> best_match.title,
                category |-> get_job_category(best_match.code),
                path |-> "search",
                table |-> DictSet(table,
                                  DiscoveryKey(best_match.title),
                                  best_match.code)]
      ELSE [soc_code |-> UNKNOWN_CODE,
            title |-> job_title,
            category |-> "General",
            path |-> "unknown",
            table |-> table]

---------------------------------------------------------------------------
(* Dates: datetime.now(), strftime("%Y-%m-%d"), strptime, timedelta.days   *)

\* a calendar date is <<year, month, day>>; the time of day is left out, as
\* strftime("%Y-%m-%d") drops it and (now - midnight).days floors it away
IsLeap(y) == (y % 4 = 0) /\ ((y % 100 # 0) \/ (y % 400 = 0))

DaysInMonth(y, m) ==
  CASE m \in {4, 6, 9, 11} -> 30
    [] m = 2 -> IF IsLeap(y) THEN 29 ELSE 28
    [] OTHER -> 31

\* the first day of the month after month m of year y
FirstOfNextMonth(y, m) == IF m < 12 THEN <<y, m + 1, 1>> ELSE <<y + 1, 1, 1>>

\* the date n days after date, n >= 0: within the month, or on from the
\* first day of the next month
RECURSIVE AddDays(_, _)
AddDays(date, n) ==
  LET y == date[1]
      m == date[2]
      d == date[3]
  IN  IF d + n <= DaysInMonth(y, m) THEN <<y, m, d + n>>
      ELSE AddDays(FirstOfNextMonth(y, m), n - (DaysInMonth(y, m) - d + 1))

\* days in the months of year y before month m
RECURSIVE DaysBeforeMonth(_, _)
DaysBeforeMonth(y, m) ==
  IF m = 1 THEN 0 ELSE DaysBeforeMonth(y, m - 1) + DaysInMonth(y, m - 1)

\* days before January 1st of year y
DaysBeforeYear(y) ==
  ((y - 1) * 365) + ((y - 1) \div 4) - ((y - 1) \div 100) + ((y - 1) \div 400)

\* the proleptic Gregorian ordinal datetime subtracts with
ToOrdinal(date) ==
  DaysBeforeYear(date[1]) + DaysBeforeMonth(date[1], date[2]) + date[3]

Digits == <<"0", "1", "2", "3", "4", "5", "6", "7", "8", "9">>

DigitChar(n) == Digits[n + 1]

DigitValue(c) == (CHOOSE i \in 1..10 : Digits[i] = c) - 1

\* a number in w zero-padded decimal digits
RECURSIVE ZeroPadded(_, _)
ZeroPadded(n, w) ==
  IF w = 0 THEN <<>>
  ELSE Append(ZeroPadded(n \div 10, w - 1), DigitChar(n % 10))

\* int() of a string of decimal digits
RECURSIVE ParseInt(_)
ParseInt(s) ==
  IF s = <<>> THEN 0
  ELSE (ParseInt(SubSeq(s, 1, Len(s) - 1)) * 10) + DigitValue(s[Len(s)])

\* date.strftime("%Y-%m-%d")
strftime(date) ==
  ZeroPadded(date[1], 4) \o <<"-">> \o ZeroPadded(date[2], 2)
    \o <<"-">> \o ZeroPadded(date[3], 2)

\* datetime.strptime(s, "%Y-%m-%d"), for a string strftime wrote
strptime(s) ==
  <<ParseInt(SubSeq(s, 1, 4)), ParseInt(SubSeq(s, 6, 7)), ParseInt(SubSeq(s, 9, 10))>>

\* the code point of a character of a date string, a series id or a cache
\* key
CharRank(c) ==
  CASE c = "," -> 44
    [] c = "-" -> 45
    [] c = "E" -> 69
    [] c = "O" -> 79
    [] c = "U" -> 85
    [] c = "_" -> 95
    [] OTHER -> 48 + DigitValue(c)

\* a < b, as strings are compared: by the first character that differs, a
\* proper prefix first
RECURSIVE StrLess(_, _)
StrLess(a, b) ==
  IF b = <<>> THEN FALSE
  ELSE IF a = <<>> THEN TRUE
  ELSE IF Head(a) # Head(b) THEN CharRank(Head(a)) < CharRank(Head(b))
  ELSE StrLess(Tail(a), Tail(b))

---------------------------------------------------------------------------
(* Statistics store, bls_job_mapper.py: the bls_job_data table *)

\* Python's None is <<>>, a present value v is <<v>>
None == <<>>

Some(v) == <<v>>

\* days a record is served from the store
FRESH_DAYS == 90

\* a slip the freshness check must notice: a record of exactly 90 days served
IsFresh_Inclusive(days_since_update) == days_since_update <= FRESH_DAYS

\* days_since_update < 90
IsFresh(days_since_update) == days_since_update < FRESH_DAYS

\* (datetime.now() - strptime(last_updated)).days
DaysSinceUpdate(today, last_updated) ==
  ToOrdinal(today) - ToOrdinal(strptime(last_updated))

\* SELECT ... WHERE occupation_code = :code
RowsFor(rows, code) == { r \in rows : r.occupation_code = code }

\* ORDER BY last_updated DESC LIMIT 1: a row no other row of the code sorts
\* after (which one, among equals, is the database's choice)
NewestRows(rows, code) ==
  { r \in RowsFor(rows, code) :
      \A q \in RowsFor(rows, code) : ~StrLess(r.last_updated, q.last_updated) }

\* a slip the upsert check must notice: the existence test always empty, so
\* that every save inserts
RowExists_Never(rows, code) == FALSE

\* SELECT id ... WHERE occupation_code = :occupation_code; fetchone()
RowExists(rows, code) == RowsFor(rows, code) # {}

\* a slip: last_updated always stamped with the current date
StampDate_Always(data, today) == strftime(today)

\* data["last_updated"], set to the current date if not provided
StampDate(data, today) ==
  IF data.last_updated = None THEN strftime(today) ELSE data.last_updated[1]

\* the row the INSERT writes, or the UPDATE leaves, for data
RowOf(id, data, last_updated) ==
  [id |-> id,
   occupation_code |-> data.occupation_code,
   job_title |-> data.job_title,
   standardized_title |-> data.standardized_title,
   job_category |-> data.job_category,
   current_employment |-> data.current_employment,
   projected_employment |-> data.projected_employment,
   percent_change |-> data.percent_change,
   annual_job_openings |-> data.annual_job_openings,
   median_wage |-> data.median_wage,
   last_updated |-> last_updated]

\* UPDATE bls_job_data SET ... WHERE occupation_code = :occupation_code
UpdateRows(rows, data, last_updated) ==
  { IF r.occupation_code = data.occupation_code
    THEN RowOf(r.id, data, last_updated)
    ELSE r : r \in rows }

\* the table after save_bls_data_to_db(data) has committed
SavedRows(rows, id, data, today) ==
  IF RowExists(rows, data.occupation_code)
  THEN UpdateRows(rows, data, StampDate(data, today))
  ELSE rows \cup { RowOf(id, data, StampDate(data, today)) }

---------------------------------------------------------------------------
(* The normalizer alone: an input is drawn, standardize_job_title applied *)

\* standardize_job_title(title), and once more on its own result
Standardize ==
  /\ nPc = "drawn"
  /\ nOnce' = standardize_job_title(nTitle)
  /\ nTwice' = standardize_job_title(standardize_job_title(nTitle))
  /\ nPc' = "done"
  /\ UNCHANGED <<nBase, nChain, nCase, nPad>>
  /\ UNCHANGED <<resolverVars, storeVars, fetchVars, riskVars, threadVars, saveVars, pipeVars, formatVars, callVars>>

NormNext == Standardize

---------------------------------------------------------------------------
(* The resolver as a state machine: one find_occupation_code call a step *)

\* the titles callers ask for
ResolveTitles ==
  { <<"S","o","f","t","w","a","r","e"," ","E","n","g","i","n","e","e","r"," ","I","I","I">>,
    <<"R","e","g","i","s","t","e","r","e","d"," ","N","u","r","s","e">>,
    <<"h","u","m","a","n"," ","r","e","s","o","u","r","c","e","s"," ","s","p","e","c","i","a","l","i","s","t">>,
    <<"E","x","e","c","u","t","i","v","e"," ","A","s","s","i","s","t","a","n","t">>,
    <<"c","o","u","r","t"," ","r","e","p","o","r","t","e","r">>,
    <<"N","U","R","S","E"," ","I","I">>,
    <<" ","T","e","a","c","h","e","r"," ">>,
    <<"S","e","n","i","o","r"," ","S","o","f","t","w","a","r","e"," ","E","n","g","i","n","e","e","r">>,
    <<"c","o","o","k","b","o","o","k"," ","a","u","t","h","o","r">>,
    <<>>,
    <<"L","e","a","d">>,
    <<"P","h","a","r","m","a","c","i","s","t">>,
    <<"p","h","a","r","m","a","c","i","s","t","s">>,
    <<"m","a","n","a","g","e","r","s">>,
    <<"F","i","n","a","n","c","i","a","l"," ","M","a","n","a","g","e","r","s">>,
    <<"f","i","n","a","n","c","i","a","l"," ","m","a","n","a","g","e","r","s"," ","l","e","a","d">>,
    <<"a","s","t","r","o","n","a","u","t">>,
    <<"p","h","a","r","m","a","c","i","s","t"," ">>,
    <<"Z","o","o","k","e","e","p","e","r"," ","I","I">>,
    <<"B","u","s","i","n","e","s","s"," ","T","e","a","c","h","e","r","s",","," ","P","o","s","t","s","e","c","o","n","d","a","r","y">>,
    <<"p","o","s","t","s","e","c","o","n","d","a","r","y">> }

NoCall == [soc_code |-> <<>>, title |-> <<>>, category |-> "", path |-> "none"]

ResolverInit ==
  /\ JOB_TITLE_TO_SOC = STATIC_JOB_TITLE_TO_SOC
  /\ rTitle = <<>>
  /\ rResult = NoCall

FindOccupationCode ==
  \E job_title \in ResolveTitles :
    \E r \in {find_occupation_code(JOB_TITLE_TO_SOC, job_title)} :
        /\ rTitle' = job_title
        /\ rResult' = [soc_code |-> r.soc_code, title |-> r.title,
                       category |-> r.category, path |-> r.path]
        /\ JOB_TITLE_TO_SOC' = r.table
        /\ UNCHANGED <<normVars, storeVars, fetchVars, riskVars, threadVars, saveVars, pipeVars, formatVars, callVars>>

ResolveNext == FindOccupationCode

---------------------------------------------------------------------------
(* The store as a state machine: the clock, reads and saves *)

\* the day the process starts
StartDate == <<2023, 12, 1>>

\* days the clock may move between two calls
ClockSteps == {1, 89}

MaxClockSteps == 3

StoreCodes == { <<"1","5","-","1","2","5","2">>, <<"2","9","-","1","1","4","1">> }

\* the dicts save_bls_data_to_db is given: two bodies per code, with the
\* last_updated key missing, set to the current date (as fetch_bls_data
\* sets it), or set to the date the process started
SaveInputs(today) ==
  { [occupation_code |-> code,
     job_title |-> body.job_title,
     standardized_title |-> body.job_title,
     job_category |-> get_job_category(code),
     current_employment |-> body.current_employment,
     projected_employment |-> body.projected_employment,
     percent_change |-> body.percent_change,
     annual_job_openings |-> body.annual_job_openings,
     median_wage |-> body.median_wage,
     last_updated |-> last_updated] :
      code \in StoreCodes,
      body \in { [job_title |-> <<"D","e","v","e","l","o","p","e","r">>,
                  current_employment |-> Some(1365500),
                  projected_employment |-> Some(1572900),
                  percent_change |-> Some(15),
                  annual_job_openings |-> Some(162900),
                  median_wage |-> Some(<<"1","2","0","0","0","0">>)],
                 [job_title |-> <<"N","u","r","s","e">>,
                  current_employment |-> None,
                  projected_employment |-> None,
                  percent_change |-> None,
                  annual_job_openings |-> None,
                  median_wage |-> None] },
      last_updated \in { None, Some(strftime(today)), Some(strftime(StartDate)) } }

NoStoreCall == [op |-> "none", code |-> <<>>, data |-> None, result |-> None, ok |-> FALSE]

StoreInit ==
  /\ engine \in BOOLEAN
  /\ bls_job_data = {}
  /\ nextId = 1
  /\ now = StartDate
  /\ clockSteps = 0
  /\ sLast = NoStoreCall

\* the store left alone: the other specifications start here
StoreIdle ==
  /\ engine = FALSE
  /\ bls_job_data = {}
  /\ nextId = 1
  /\ now = StartDate
  /\ clockSteps = 0
  /\ sLast = NoStoreCall

\* time passes between two calls
AdvanceClock ==
  /\ clockSteps < MaxClockSteps
  /\ \E n \in ClockSteps : now' = AddDays(now, n)
  /\ clockSteps' = clockSteps + 1
  /\ sLast' = NoStoreCall
  /\ UNCHANGED <<engine, bls_job_data, nextId>>
  /\ UNCHANGED <<normVars, resolverVars, fetchVars, riskVars, threadVars, saveVars, pipeVars, formatVars, callVars>>

\* get_bls_data_from_db(occupation_code); fault: a store operation raises
GetBlsDataFromDb ==
  \E code \in StoreCodes, fault \in BOOLEAN :
    /\ \/ /\ ~engine \/ fault \/ RowsFor(bls_job_data, code) = {}
          /\ sLast' = [op |-> "get", code |-> code, data |-> None,
                       result |-> None, ok |-> engine /\ ~fault]
       \/ /\ engine /\ ~fault
          /\ \E row \in NewestRows(bls_job_data, code) :
               sLast' = [op |-> "get", code |-> code, data |-> None,
                         result |-> IF IsFresh(DaysSinceUpdate(now, row.last_updated))
                                    THEN Some(row) ELSE None,
                         ok |-> TRUE]
    /\ UNCHANGED <<engine, bls_job_data, nextId, now, clockSteps>>
    /\ UNCHANGED <<normVars, resolverVars, fetchVars, riskVars, threadVars, saveVars, pipeVars, formatVars, callVars>>

\* save_bls_data_to_db(data); fault: a store operation raises before the
\* commit, and nothing is written
SaveBlsDataToDb ==
  \E data \in SaveInputs(now), fault \in BOOLEAN :
    /\ IF engine /\ ~fault
       THEN /\ bls_job_data' = SavedRows(bls_job_data, nextId, data, now)
            /\ nextId' = IF RowExists(bls_job_data, data.occupation_code)
                         THEN nextId ELSE nextId + 1
       ELSE UNCHANGED <<bls_job_data, nextId>>
    /\ sLast' = [op |-> "save", code |-> data.occupation_code,
                 data |-> Some(data), result |-> None, ok |-> engine /\ ~fault]
    /\ UNCHANGED <<engine, now, clockSteps>>
    /\ UNCHANGED <<normVars, resolverVars, fetchVars, riskVars, threadVars, saveVars, pipeVars, formatVars, callVars>>

StoreNext == AdvanceClock \/ GetBlsDataFromDb \/ SaveBlsDataToDb

---------------------------------------------------------------------------
(* Upstream fetcher, bls_connector.py: get_bls_data and its response       *)
(* cache, get_occupation_data, parse_occupation_response                   *)

\* a value `if not api_key` lets through: set, and not the empty string
Truthy(api_key) == api_key # None /\ api_key[1] # <<>>

\* a sorted list with one more string put in its place, after its equals
RECURSIVE InsertSorted(_, _)
InsertSorted(l, x) ==
  IF l = <<>> THEN <<x>>
  ELSE IF StrLess(x, Head(l)) THEN <<x>> \o l
  ELSE <<Head(l)>> \o InsertSorted(Tail(l), x)

\* the list left as the caller ordered it
sorted_AsGiven(l) == l

\* sorted(l), for a list of strings
RECURSIVE sorted(_)
sorted(l) ==
  IF l = <<>> THEN <<>>
  ELSE InsertSorted(sorted(SubSeq(l, 1, Len(l) - 1)), l[Len(l)])

\* sep.join(l)
RECURSIVE join(_, _)
join(sep, l) ==
  IF l = <<>> THEN <<>>
  ELSE IF Len(l) = 1 THEN l[1]
  ELSE l[1] \o sep \o join(sep, Tail(l))

\* f"{','.join(sorted(series_ids))}_{start_year}_{end_year}"
cache_key(series_ids, start_year, end_year) ==
  join(<<",">>, sorted(series_ids)) \o <<"_">> \o start_year \o <<"_">> \o end_year

\* _api_cache, a dict, as the set of its [key, data] items
CacheHas(cache, key) == \E item \in cache : item.key = key

CacheGet(cache, key) == (CHOOSE item \in cache : item.key = key).data

CachePut(cache, key, data) ==
  {item \in cache : item.key # key} \cup {[key |-> key, data |-> data]}

\* the data of the sample series returned when no credential is set
SAMPLE_DATA ==
  << [year |-> "2020", value |-> "120000"],
     [year |-> "2021", value |-> "125000"],
     [year |-> "2022", value |-> "130000"],
     [year |-> "2023", value |-> "135000"],
     [year |-> "2024", value |-> "140000"] >>

\* the sample response: one series, under the first requested id
SampleResponse(series_ids) ==
  [status |-> "success",
   message |-> <<>>,
   Results |-> Some(<< [seriesID |-> series_ids[1], data |-> SAMPLE_DATA] >>)]

\* {"status": "error", "message": str(e)}: a response with no Results
ErrorResponse(message) ==
  [status |-> "error", message |-> message, Results |-> None]

\* a get_bls_data that keeps the error result of a failed request in the cache
get_bls_data_CacheFailure(api_key, cache, series_ids, start_year, end_year, upstream) ==
  IF ~Truthy(api_key)
  THEN [data |-> SampleResponse(series_ids), cache |-> cache, posted |-> FALSE]
  ELSE LET key == cache_key(series_ids, start_year, end_year) IN
       IF CacheHas(cache, key)
       THEN [data |-> CacheGet(cache, key), cache |-> cache, posted |-> FALSE]
       ELSE LET data == IF upstream.ok THEN upstream.body
                        ELSE ErrorResponse(upstream.message)
            IN [data |-> data, cache |-> CachePut(cache, key, data), posted |-> TRUE]

\* what get_bls_data does with a credential, a cache and the outcome of the
\* request it may post: the dict it returns, the cache it leaves, and whether
\* it posted the request
get_bls_data(api_key, cache, series_ids, start_year, end_year, upstream) ==
  IF ~Truthy(api_key)
  THEN [data |-> SampleResponse(series_ids), cache |-> cache, posted |-> FALSE]
  ELSE LET key == cache_key(series_ids, start_year, end_year) IN
       IF CacheHas(cache, key)
       THEN [data |-> CacheGet(cache, key), cache |-> cache, posted |-> FALSE]
       ELSE IF upstream.ok
       THEN [data |-> upstream.body,
             cache |-> CachePut(cache, key, upstream.body),
             posted |-> TRUE]
       ELSE [data |-> ErrorResponse(upstream.message),
             cache |-> cache,
             posted |-> TRUE]

\* response_data.get("Results", {}).get("series", [])
SeriesOf(response_data) ==
  IF response_data.Results = None THEN <<>> ELSE response_data.Results[1]

\* the items of one series, each under the id of its series
RECURSIVE ItemsOf(_, _)
ItemsOf(series_id, data) ==
  IF data = <<>> THEN <<>>
  ELSE << [series_id |-> series_id,
           year |-> Head(data).year,
           value |-> Head(data).value] >>
       \o ItemsOf(series_id, Tail(data))

\* results, the items of every series in the order of the response
RECURSIVE ResultsOf(_)
ResultsOf(series) ==
  IF series = <<>> THEN <<>>
  ELSE ItemsOf(Head(series).seriesID, Head(series).data) \o ResultsOf(Tail(series))

REQUEST_SUCCEEDED == "REQUEST_SUCCEEDED"

\* response_data.get("status") == "REQUEST_SUCCEEDED"
StatusAccepted(status) == status = REQUEST_SUCCEEDED

parse_occupation_response(response_data, occ_code) ==
  IF ~StatusAccepted(response_data.status)
  THEN [status |-> "error",
        message |-> <<"BLS API request failed: ">> \o response_data.message,
        occupation_code |-> None,
        data |-> <<>>,
        latest_value |-> None]
  ELSE LET results == ResultsOf(SeriesOf(response_data)) IN
       IF results # <<>>
       THEN [status |-> "success",
             message |-> <<>>,
             occupation_code |-> Some(occ_code),
             data |-> results,
             latest_value |-> Some(results[1].value)]
       ELSE [status |-> "error",
             message |-> <<"No data found for the requested occupation">>,
             occupation_code |-> None,
             data |-> <<>>,
             latest_value |-> None]

SERIES_15_1252 ==
  <<"O","E","U","1","0","2","5","5","6","0","0","0","0","0","0","0","0",
    "1","5","1","2","5","2","0","1">>

SERIES_11_9111 ==
  <<"O","E","U","1","0","2","5","5","6","0","0","0","0","0","0","0","0",
    "1","1","9","1","1","1","0","1">>

series_mapping ==
  << [key |-> <<"1","5","-","1","2","5","2">>, series_id |-> SERIES_15_1252],
     [key |-> <<"1","1","-","9","1","1","1">>, series_id |-> SERIES_11_9111] >>

\* occ_code in series_mapping
Mapped(occ_code) == \E i \in 1..Len(series_mapping) : series_mapping[i].key = occ_code

\* series_mapping[occ_code]
SeriesIdOf(occ_code) ==
  series_mapping[CHOOSE i \in 1..Len(series_mapping) : series_mapping[i].key = occ_code].series_id

\* str(n), n >= 0
RECURSIVE IntStr(_)
IntStr(n) ==
  IF n < 10 THEN <<DigitChar(n)>>
  ELSE Append(IntStr(n \div 10), DigitChar(n % 10))

\* time.strftime("%Y")
YearOf(date) == ZeroPadded(date[1], 4)

\* the arguments get_occupation_data calls get_bls_data with
OccupationRequest(occ_code, today) ==
  [series_ids |-> <<SeriesIdOf(occ_code)>>,
   start_year |-> IntStr(ParseInt(YearOf(today)) - 5),
   end_year |-> YearOf(today)]

\* what get_occupation_data returns, with the get_bls_data calls it made
get_occupation_data(api_key, cache, occ_code, today, upstream) ==
  IF Mapped(occ_code)
  THEN LET req == OccupationRequest(occ_code, today)
           got == get_bls_data(api_key, cache, req.series_ids,
                               req.start_year, req.end_year, upstream)
       IN [result |-> parse_occupation_response(got.data, occ_code),
           cache |-> got.cache,
           calls |-> << [series_ids |-> req.series_ids,
                         start_year |-> req.start_year,
                         end_year |-> req.end_year,
                         data |-> got.data,
                         posted |-> got.posted] >>]
  ELSE [result |-> [status |-> "error",
                    message |-> <<"No BLS series ID mapping found for occupation code ">>
                                  \o occ_code,
                    occupation_code |-> None,
                    data |-> <<>>,
                    latest_value |-> None],
        cache |-> cache,
        calls |-> <<>>]

---------------------------------------------------------------------------
(* The fetcher as a state machine: the environment, and one call a step *)

\* BLS_API_KEY in the environment: unset, empty, or a key
ApiKeys == {None, Some(<<>>), Some(<<"k","e","y">>)}

\* the arguments get_bls_data is called with: the two mapped series in both
\* orders, one of them alone for two ranges of years, and one of them twice
FetchInputs ==
  { [series_ids |-> <<SERIES_15_1252>>, start_year |-> <<"2","0","1","8">>,
     end_year |-> <<"2","0","2","3">>],
    [series_ids |-> <<SERIES_15_1252>>, start_year |-> <<"2","0","1","9">>,
     end_year |-> <<"2","0","2","3">>],
    [series_ids |-> <<SERIES_15_1252, SERIES_11_9111>>,
     start_year |-> <<"2","0","1","8">>, end_year |-> <<"2","0","2","3">>],
    [series_ids |-> <<SERIES_11_9111, SERIES_15_1252>>,
     start_year |-> <<"2","0","1","8">>, end_year |-> <<"2","0","2","3">>],
    [series_ids |-> <<SERIES_15_1252, SERIES_15_1252>>,
     start_year |-> <<"2","0","1","8">>, end_year |-> <<"2","0","2","3">>] }

\* the codes get_occupation_data is called with: one that is mapped and one
\* that is not
FetchCodes ==
  { <<"1","5","-","1","2","5","2">>, <<"2","9","-","1","1","4","1">> }

\* the data the upstream can hold for a series: two years, or none
UpstreamData ==
  { << [year |-> "2023", value |-> "1847900"],
       [year |-> "2022", value |-> "1795300"] >>,
    <<>> }

\* one series per requested id, in the order requested
RECURSIVE SeriesFor(_, _)
SeriesFor(series_ids, data) ==
  IF series_ids = <<>> THEN <<>>
  ELSE << [seriesID |-> Head(series_ids), data |-> data] >>
       \o SeriesFor(Tail(series_ids), data)

\* the outcomes of requests.post for a request: a JSON body that reports
\* success, a JSON body that reports a refused request, or a
\* RequestException
Upstream(series_ids) ==
  { [ok |-> TRUE,
     body |-> [status |-> REQUEST_SUCCEEDED,
               message |-> <<>>,
               Results |-> Some(SeriesFor(series_ids, data))],
     message |-> <<>>] : data \in UpstreamData }
  \cup
  { [ok |-> TRUE,
     body |-> [status |-> "REQUEST_NOT_PROCESSED",
               message |-> <<"daily threshold for total number of requests reached">>,
               Results |-> Some(<<>>)],
     message |-> <<>>],
    [ok |-> FALSE,
     body |-> ErrorResponse(<<>>),
     message |-> <<"connection refused">>] }

NoFetchCall == [op |-> "none", occ_code |-> <<>>, calls |-> <<>>, result |-> None]

\* the responses the upstream gave to the calls of one step
Received(calls, upstream) ==
  { [series_ids |-> calls[i].series_ids,
     start_year |-> calls[i].start_year,
     end_year |-> calls[i].end_year,
     data |-> calls[i].data] :
    i \in {j \in 1..Len(calls) : calls[j].posted /\ upstream.ok} }

FetchInit ==
  /\ BLS_API_KEY \in ApiKeys
  /\ _api_cache = {}
  /\ fLast = NoFetchCall
  /\ received = {}

FetchIdle ==
  /\ BLS_API_KEY = None
  /\ _api_cache = {}
  /\ fLast = NoFetchCall
  /\ received = {}

\* the environment changes between two calls
SetEnv ==
  /\ \E api_key \in ApiKeys \ {BLS_API_KEY} : BLS_API_KEY' = api_key
  /\ fLast' = NoFetchCall
  /\ UNCHANGED <<_api_cache, received>>
  /\ UNCHANGED <<normVars, resolverVars, storeVars, riskVars, threadVars, saveVars, pipeVars, formatVars, callVars>>

GetBlsData ==
  \E args \in FetchInputs :
    \E upstream \in Upstream(args.series_ids) :
      LET got == get_bls_data(BLS_API_KEY, _api_cache, args.series_ids,
                              args.start_year, args.end_year, upstream)
          calls == << [series_ids |-> args.series_ids,
                       start_year |-> args.start_year,
                       end_year |-> args.end_year,
                       data |-> got.data,
                       posted |-> got.posted] >>
      IN /\ _api_cache' = got.cache
         /\ fLast' = [op |-> "get_bls_data", occ_code |-> <<>>,
                      calls |-> calls, result |-> None]
         /\ received' = received \cup Received(calls, upstream)
         /\ UNCHANGED BLS_API_KEY
         /\ UNCHANGED <<normVars, resolverVars, storeVars, riskVars, threadVars, saveVars, pipeVars, formatVars, callVars>>

GetOccupationData ==
  \E occ_code \in FetchCodes :
    \E upstream \in Upstream(IF Mapped(occ_code) THEN <<SeriesIdOf(occ_code)>> ELSE <<>>) :
      LET got == get_occupation_data(BLS_API_KEY, _api_cache, occ_code, now, upstream)
      IN /\ _api_cache' = got.cache
         /\ fLast' = [op |-> "get_occupation_data", occ_code |-> occ_code,
                      calls |-> got.calls, result |-> Some(got.result)]
         /\ received' = received \cup Received(got.calls, upstream)
         /\ UNCHANGED BLS_API_KEY
         /\ UNCHANGED <<normVars, resolverVars, storeVars, riskVars, threadVars, saveVars, pipeVars, formatVars, callVars>>

FetchNext == SetEnv \/ GetBlsData \/ GetOccupationData

---------------------------------------------------------------------------
(* Risk scoring, bls_job_mapper.py: generate_risk_factors,                 *)
(* generate_protective_factors, calculate_ai_risk                          *)

\* generate_risk_factors: the factors of any job
generic_risk_factors ==
  << "Routine data processing tasks can be automated",
     "Predictable decision-making components can be handled by AI",
     "Standardized documentation and reporting can be automated",
     "Basic customer interactions can be managed by AI systems" >>

\* generate_risk_factors: the factors of a category
category_risk_factors ==
  << [key |-> "Computer and Mathematical",
     factors |-> << "Code generation AI can produce routine programming solutions",
                  "Automated testing and debugging reduces manual work",
                  "Basic website and application development increasingly automated",
                  "Technical documentation can be generated by AI" >>],
    [key |-> "Management",
     factors |-> << "AI tools can handle resource allocation and scheduling",
                  "Performance monitoring and reporting can be automated",
                  "Basic project tracking requires less human oversight",
                  "Standard communication can be drafted by AI" >>],
    [key |-> "Business and Financial",
     factors |-> << "Financial analysis and modeling increasingly automated",
                  "Transaction processing and auditing can be handled by AI",
                  "Market research data collection and basic analysis automated",
                  "Standard financial reporting can be generated by AI" >>],
    [key |-> "Legal",
     factors |-> << "Document review and contract analysis increasingly automated",
                  "Legal research can be accelerated with AI assistance",
                  "Standard legal document generation handled by AI",
                  "Case outcome prediction becoming more automated" >>],
    [key |-> "Educational Instruction",
     factors |-> << "Basic content delivery can be automated through online platforms",
                  "Standardized assessment and grading increasingly automated",
                  "Administrative tasks can be handled by AI systems",
                  "Some tutoring functions can be performed by AI" >>],
    [key |-> "Healthcare Practitioners",
     factors |-> << "Administrative tasks and documentation increasingly automated",
                  "Basic diagnostic assistance provided by AI",
                  "Patient scheduling and management can be automated",
                  "Some monitoring functions can be performed by AI systems" >>] >>

\* generate_protective_factors: the factors of any job
generic_protective_factors ==
  << "Complex decision-making in ambiguous situations",
     "Creative problem-solving in unpredictable environments",
     "Building relationships and emotional intelligence",
     "Adaptability to changing circumstances and requirements" >>

\* generate_protective_factors: the factors of a category
category_protective_factors ==
  << [key |-> "Computer and Mathematical",
     factors |-> << "Advanced systems architecture and design",
                  "Novel algorithm development and implementation",
                  "Complex integration of disparate technologies",
                  "Innovative problem-solving in unique technical contexts" >>],
    [key |-> "Management",
     factors |-> << "Strategic leadership and organizational vision",
                  "Complex stakeholder relationship management",
                  "Change management in ambiguous environments",
                  "Cultivating team culture and interpersonal dynamics" >>],
    [key |-> "Business and Financial",
     factors |-> << "Complex strategic financial planning",
                  "Contextual business judgment requiring broad knowledge",
                  "Negotiation and persuasion in high-stakes situations",
                  "Novel market opportunity identification" >>],
    [key |-> "Legal",
     factors |-> << "Complex legal strategy development",
                  "Persuasive courtroom advocacy",
                  "Nuanced client counseling in ambiguous situations",
                  "Novel legal theory development" >>],
    [key |-> "Educational Instruction",
     factors |-> << "Personalized teaching adapted to individual student needs",
                  "Creating engaging learning environments",
                  "Mentoring and developing student potential",
                  "Addressing complex behavioral and learning challenges" >>],
    [key |-> "Healthcare Practitioners",
     factors |-> << "Complex clinical judgment in uncertain situations",
                  "Empathetic patient care requiring emotional intelligence",
                  "Physical assessment and intervention skills",
                  "Integrated treatment planning for complex cases" >>] >>

\* the 1-year and 5-year risk of each category; every score in the source
\* is a float with no fractional part, written here as the integer
category_risk_scores ==
  << [key |-> "Computer and Mathematical", year_1_risk |-> 30, year_5_risk |-> 50],
     [key |-> "Management", year_1_risk |-> 25, year_5_risk |-> 45],
     [key |-> "Business and Financial", year_1_risk |-> 35, year_5_risk |-> 55],
     [key |-> "Architecture and Engineering", year_1_risk |-> 20, year_5_risk |-> 40],
     [key |-> "Life, Physical, and Social Science", year_1_risk |-> 15, year_5_risk |-> 35],
     [key |-> "Community and Social Service", year_1_risk |-> 15, year_5_risk |-> 30],
     [key |-> "Legal", year_1_risk |-> 25, year_5_risk |-> 45],
     [key |-> "Educational Instruction", year_1_risk |-> 20, year_5_risk |-> 35],
     [key |-> "Arts, Design, Entertainment, Sports, and Media", year_1_risk |-> 30, year_5_risk |-> 50],
     [key |-> "Healthcare Practitioners", year_1_risk |-> 15, year_5_risk |-> 30],
     [key |-> "Healthcare Support", year_1_risk |-> 20, year_5_risk |-> 40],
     [key |-> "Protective Service", year_1_risk |-> 15, year_5_risk |-> 30],
     [key |-> "Food Preparation and Serving", year_1_risk |-> 35, year_5_risk |-> 60],
     [key |-> "Building and Grounds Cleaning and Maintenance", year_1_risk |-> 30, year_5_risk |-> 55],
     [key |-> "Personal Care and Service", year_1_risk |-> 25, year_5_risk |-> 45],
     [key |-> "Sales and Related", year_1_risk |-> 40, year_5_risk |-> 65],
     [key |-> "Office and Administrative Support", year_1_risk |-> 45, year_5_risk |-> 70],
     [key |-> "Farming, Fishing, and Forestry", year_1_risk |-> 30, year_5_risk |-> 50],
     [key |-> "Construction and Extraction", year_1_risk |-> 20, year_5_risk |-> 40],
     [key |-> "Installation, Maintenance, and Repair", year_1_risk |-> 25, year_5_risk |-> 45],
     [key |-> "Production", year_1_risk |-> 40, year_5_risk |-> 65],
     [key |-> "Transportation and Material Moving", year_1_risk |-> 35, year_5_risk |-> 60] >>

\* category_risk_factors.get(job_category, []), for either factor table
FactorsOf(table, job_category) ==
  IF \E i \in 1..Len(table) : table[i].key = job_category
  THEN table[CHOOSE i \in 1..Len(table) : table[i].key = job_category].factors
  ELSE <<>>

\* factors[:min(5, len(factors))]
FirstFive(factors) ==
  SubSeq(factors, 1, IF Len(factors) < 5 THEN Len(factors) ELSE 5)

generate_risk_factors(job_title, job_category) ==
  FirstFive(FactorsOf(category_risk_factors, job_category) \o generic_risk_factors)

generate_protective_factors(job_title, job_category) ==
  FirstFive(FactorsOf(category_protective_factors, job_category)
              \o generic_protective_factors)

\* a default pair whose 5-year risk lies below 50
default_risk_Below50 == [year_1_risk |-> 35, year_5_risk |-> 45]

\* default_risk = (35.0, 55.0)
default_risk == [year_1_risk |-> 35, year_5_risk |-> 55]

\* category_risk_scores.get(job_category, default_risk)
RiskScores(job_category) ==
  IF \E i \in 1..Len(category_risk_scores) : category_risk_scores[i].key = job_category
  THEN LET row == category_risk_scores[
                    CHOOSE i \in 1..Len(category_risk_scores) :
                      category_risk_scores[i].key = job_category]
       IN [year_1_risk |-> row.year_1_risk, year_5_risk |-> row.year_5_risk]
  ELSE default_risk

\* the tiers with each boundary score left in the lower tier
RiskCategoryOf_Inclusive(year_5_risk) ==
  IF year_5_risk <= 30 THEN "Low"
  ELSE IF year_5_risk <= 50 THEN "Moderate"
  ELSE IF year_5_risk <= 70 THEN "High"
  ELSE "Very High"

\* risk_category, from the 5-year risk
RiskCategoryOf(year_5_risk) ==
  IF year_5_risk < 30 THEN "Low"
  ELSE IF year_5_risk < 50 THEN "Moderate"
  ELSE IF year_5_risk < 70 THEN "High"
  ELSE "Very High"

\* risk_category.lower()
LowerTier(risk_category) ==
  CASE risk_category = "Low" -> "low"
    [] risk_category = "Moderate" -> "moderate"
    [] risk_category = "High" -> "high"
    [] risk_category = "Very High" -> "very high"

\* the analysis text: the title, the tier in lower case, and which of the
\* two middle sentences was appended
AnalysisOf(job_title, risk_category) ==
  [job_title |-> job_title,
   qualifier |-> LowerTier(risk_category),
   middle |-> IF risk_category \in {"Low", "Moderate"}
              THEN "core functions remain difficult to replace"
              ELSE "routine tasks are increasingly being automated"]

calculate_ai_risk(job_title, job_category) ==
  LET scores == RiskScores(job_category)
      risk_category == RiskCategoryOf(scores.year_5_risk)
  IN [year_1_risk |-> scores.year_1_risk,
      year_5_risk |-> scores.year_5_risk,
      risk_category |-> risk_category,
      risk_factors |-> generate_risk_factors(job_title, job_category),
      protective_factors |-> generate_protective_factors(job_title, job_category),
      analysis |-> AnalysisOf(job_title, risk_category)]

---------------------------------------------------------------------------
(* Risk scoring as a state machine: a title and a category are drawn,      *)
(* calculate_ai_risk applied                                               *)

\* the keys of the risk score table
RiskKeys == {category_risk_scores[i].key : i \in 1..Len(category_risk_scores)}

\* the categories calculate_ai_risk is given: every key of the table, the
\* category of an unmapped code, and strings that are no key
RiskCategories ==
  RiskKeys \cup {"General", "", "management", "Education", "Healthcare",
                 "Transportation"}

RiskTitles ==
  { <<"N","u","r","s","e">>, <<"Z","o","o","k","e","e","p","e","r">> }

RiskInit ==
  /\ kTitle \in RiskTitles
  /\ kCategory \in RiskCategories
  /\ kResult = None

RiskIdle ==
  /\ kTitle = <<>>
  /\ kCategory = "General"
  /\ kResult = None

CalculateAiRisk ==
  /\ kResult = None
  /\ kResult' = Some(calculate_ai_risk(kTitle, kCategory))
  /\ UNCHANGED <<kTitle, kCategory>>
  /\ UNCHANGED <<normVars, resolverVars, storeVars, fetchVars, threadVars, saveVars, pipeVars, formatVars, callVars>>

RiskNext == CalculateAiRisk

---------------------------------------------------------------------------
(* find_occupation_code called from several threads on the one             *)
(* JOB_TITLE_TO_SOC. A thread switch can fall between any two bytecodes,   *)
(* so each step below is one operation on the shared dict: the direct      *)
(* lookup, the creation of the dict iterator, one turn of the for loop,    *)
(* the item assignment of the fallback. The iterator of a dict records the *)
(* number of items when it is created and raises RuntimeError on the next  *)
(* turn once the dict holds a different number.                            *)

Threads == {1, 2}

\* the titles the threads ask for: two the fallback discovers, one nothing
\* matches, one a key of the table is part of
ThreadTitles ==
  { <<"P","h","a","r","m","a","c","i","s","t">>,
    <<"C","h","i","e","f"," ","E","x","e","c","u","t","i","v","e">>,
    <<"a","s","t","r","o","n","a","u","t">>,
    <<"S","e","n","i","o","r"," ","S","o","f","t","w","a","r","e"," ","E","n","g","i","n","e","e","r">> }

ThreadsIdle ==
  /\ tPc = [t \in Threads |-> "idle"]
  /\ tTitle = [t \in Threads |-> <<>>]
  /\ tStd = [t \in Threads |-> <<>>]
  /\ tPos = [t \in Threads |-> 0]
  /\ tUsed = [t \in Threads |-> 0]
  /\ tResult = [t \in Threads |-> NoCall]
  /\ discovered = {}

\* the call starts: std_title, and the direct lookup
TCall(t) ==
  /\ tPc[t] = "idle"
  /\ \E job_title \in ThreadTitles :
       LET std_title == standardize_job_title(job_title) IN
         /\ tTitle' = [tTitle EXCEPT ![t] = job_title]
         /\ tStd' = [tStd EXCEPT ![t] = std_title]
         /\ IF DirectHit(JOB_TITLE_TO_SOC, std_title)
            THEN /\ tPc' = [tPc EXCEPT ![t] = "done"]
                 /\ tResult' = [tResult EXCEPT ![t] =
                      [soc_code |-> DictGet(JOB_TITLE_TO_SOC, std_title),
                       title |-> job_title,
                       category |-> get_job_category(DictGet(JOB_TITLE_TO_SOC, std_title)),
                       path |-> "direct"]]
            ELSE /\ tPc' = [tPc EXCEPT ![t] = "iter"]
                 /\ UNCHANGED tResult
  /\ UNCHANGED <<tPos, tUsed, discovered, JOB_TITLE_TO_SOC, rTitle, rResult>>
  /\ UNCHANGED <<normVars, storeVars, fetchVars, riskVars, saveVars, pipeVars, formatVars, callVars>>

\* JOB_TITLE_TO_SOC.items() is given to the for loop: the iterator records
\* the size of the dict
TIter(t) ==
  /\ tPc[t] = "iter"
  /\ tPc' = [tPc EXCEPT ![t] = "scan"]
  /\ tPos' = [tPos EXCEPT ![t] = 0]
  /\ tUsed' = [tUsed EXCEPT ![t] = Len(JOB_TITLE_TO_SOC)]
  /\ UNCHANGED <<tTitle, tStd, tResult, discovered, JOB_TITLE_TO_SOC, rTitle, rResult>>
  /\ UNCHANGED <<normVars, storeVars, fetchVars, riskVars, saveVars, pipeVars, formatVars, callVars>>

\* the iterator finds the dict at the size it recorded
SizeKept(used, table) == used = Len(table)

\* one turn of the for loop: the iterator raises when the dict has changed
\* size, runs out after the last item, or yields the next item, which ends
\* the call when it matches
TScan(t) ==
  /\ tPc[t] = "scan"
  /\ IF ~SizeKept(tUsed[t], JOB_TITLE_TO_SOC)
     THEN /\ tPc' = [tPc EXCEPT ![t] = "raised"]
          /\ tResult' = [tResult EXCEPT ![t] =
               [soc_code |-> <<>>, title |-> <<>>, category |-> "",
                path |-> "RuntimeError"]]
          /\ UNCHANGED tPos
     ELSE IF tPos[t] >= Len(JOB_TITLE_TO_SOC)
     THEN /\ tPc' = [tPc EXCEPT ![t] = "search"]
          /\ UNCHANGED <<tPos, tResult>>
     ELSE LET item == JOB_TITLE_TO_SOC[tPos[t] + 1] IN
          IF PartialMatch(item.key, tStd[t])
          THEN /\ tPc' = [tPc EXCEPT ![t] = "done"]
               /\ tResult' = [tResult EXCEPT ![t] =
                    [soc_code |-> item.code,
                     title |-> tTitle[t],
                     category |-> get_job_category(item.code),
                     path |-> "partial"]]
               /\ UNCHANGED tPos
          ELSE /\ tPos' = [tPos EXCEPT ![t] = tPos[t] + 1]
               /\ UNCHANGED <<tPc, tResult>>
  /\ UNCHANGED <<tTitle, tStd, tUsed, discovered, JOB_TITLE_TO_SOC, rTitle, rResult>>
  /\ UNCHANGED <<normVars, storeVars, fetchVars, riskVars, saveVars, pipeVars, formatVars, callVars>>

\* a list that takes every assignment as a new item
StoreItem_Append(table, key, code) == Append(table, [key |-> key, code |-> code])

\* JOB_TITLE_TO_SOC[key] = code, one bytecode
StoreItem(table, key, code) == DictSet(table, key, code)

\* the fallback: search_occupations, which reads no shared state, and the
\* item assignment when it found a match
TSearch(t) ==
  /\ tPc[t] = "search"
  /\ LET matches == search_occupations(tTitle[t]) IN
       IF matches # <<>>
       THEN LET best_match == matches[1]
                key == standardize_job_title(best_match.title)
            IN /\ JOB_TITLE_TO_SOC' = StoreItem(JOB_TITLE_TO_SOC, key, best_match.code)
               /\ discovered' = discovered \cup {[key |-> key, code |-> best_match.code]}
               /\ tResult' = [tResult EXCEPT ![t] =
                    [soc_code |-> best_match.code,
                     title |-> best_match.title,
                     category |-> get_job_category(best_match.code),
                     path |-> "search"]]
       ELSE /\ tResult' = [tResult EXCEPT ![t] =
                 [soc_code |-> UNKNOWN_CODE, title |-> tTitle[t],
                  category |-> "General", path |-> "unknown"]]
            /\ UNCHANGED <<JOB_TITLE_TO_SOC, discovered>>
  /\ tPc' = [tPc EXCEPT ![t] = "done"]
  /\ UNCHANGED <<tTitle, tStd, tPos, tUsed, rTitle, rResult>>
  /\ UNCHANGED <<normVars, storeVars, fetchVars, riskVars, saveVars, pipeVars, formatVars, callVars>>

ThreadsNext == \E t \in Threads : TCall(t) \/ TIter(t) \/ TScan(t) \/ TSearch(t)

---------------------------------------------------------------------------
(* save_bls_data_to_db called concurrently, each call on a connection of   *)
(* its own: the SELECT, the UPDATE or INSERT and the commit are separate   *)
(* statements, and a statement sees what other connections have committed. *)
(* bls_job_data has no unique constraint on occupation_code. An UPDATE     *)
(* waits for the rows another uncommitted UPDATE holds.                    *)

Savers == {1, 2}

\* calls each connection makes
MaxSaves == 2

\* the dicts the concurrent calls are given, dated as fetch_bls_data dates
\* them
SaverInputs ==
  { data \in SaveInputs(StartDate) : data.last_updated = Some(strftime(StartDate)) }

SaversIdle ==
  /\ wPc = [w \in Savers |-> "idle"]
  /\ wData = [w \in Savers |-> None]
  /\ wFound = [w \in Savers |-> FALSE]
  /\ wLocked = [w \in Savers |-> {}]
  /\ wNew = [w \in Savers |-> None]
  /\ wCalls = [w \in Savers |-> 0]
  /\ saved = {}

\* the ids of the rows an UPDATE for a code changes
IdsFor(rows, code) == { r.id : r \in RowsFor(rows, code) }

\* the call starts and runs its SELECT
WSelect(w) ==
  /\ engine
  /\ wPc[w] = "idle"
  /\ wCalls[w] < MaxSaves
  /\ \E data \in SaverInputs :
       /\ wData' = [wData EXCEPT ![w] = Some(data)]
       /\ wFound' = [wFound EXCEPT ![w] = RowExists(bls_job_data, data.occupation_code)]
  /\ wPc' = [wPc EXCEPT ![w] = "selected"]
  /\ UNCHANGED <<wLocked, wNew, wCalls, saved>>
  /\ UNCHANGED storeVars
  /\ UNCHANGED <<normVars, resolverVars, fetchVars, riskVars, threadVars, pipeVars, formatVars, callVars>>

\* if row: the UPDATE, on the rows of the code committed by now that no
\* other connection holds
WUpdate(w) ==
  /\ wPc[w] = "selected"
  /\ wFound[w]
  /\ LET ids == IdsFor(bls_job_data, wData[w][1].occupation_code) IN
       /\ \A u \in Savers \ {w} : wLocked[u] \cap ids = {}
       /\ wLocked' = [wLocked EXCEPT ![w] = ids]
  /\ wPc' = [wPc EXCEPT ![w] = "written"]
  /\ UNCHANGED <<wData, wFound, wNew, wCalls, saved>>
  /\ UNCHANGED storeVars
  /\ UNCHANGED <<normVars, resolverVars, fetchVars, riskVars, threadVars, pipeVars, formatVars, callVars>>

\* else: the INSERT, which takes the next id
WInsert(w) ==
  /\ wPc[w] = "selected"
  /\ ~wFound[w]
  /\ wNew' = [wNew EXCEPT ![w] =
       Some(RowOf(nextId, wData[w][1], StampDate(wData[w][1], now)))]
  /\ nextId' = nextId + 1
  /\ wPc' = [wPc EXCEPT ![w] = "written"]
  /\ UNCHANGED <<wData, wFound, wLocked, wCalls, saved>>
  /\ UNCHANGED <<engine, bls_job_data, now, clockSteps, sLast>>
  /\ UNCHANGED <<normVars, resolverVars, fetchVars, riskVars, threadVars, pipeVars, formatVars, callVars>>

\* the rows of the table once a connection's statement is committed
Committed(rows, data, locked, new, today) ==
  IF new # None
  THEN rows \cup {new[1]}
  ELSE { IF r.id \in locked THEN RowOf(r.id, data, StampDate(data, today)) ELSE r :
         r \in rows }

\* conn.commit(), and the call returns True
WCommit(w) ==
  /\ wPc[w] = "written"
  /\ bls_job_data' = Committed(bls_job_data, wData[w][1], wLocked[w], wNew[w], now)
  /\ saved' = saved \cup {wData[w][1]}
  /\ wPc' = [wPc EXCEPT ![w] = "idle"]
  /\ wLocked' = [wLocked EXCEPT ![w] = {}]
  /\ wNew' = [wNew EXCEPT ![w] = None]
  /\ wCalls' = [wCalls EXCEPT ![w] = wCalls[w] + 1]
  /\ UNCHANGED <<wData, wFound>>
  /\ UNCHANGED <<engine, nextId, now, clockSteps, sLast>>
  /\ UNCHANGED <<normVars, resolverVars, fetchVars, riskVars, threadVars, pipeVars, formatVars, callVars>>

SaversNext ==
  \E w \in Savers : WSelect(w) \/ WUpdate(w) \/ WInsert(w) \/ WCommit(w)

\* the store with an engine, empty, no call made
SaversStoreInit ==
  /\ engine = TRUE
  /\ bls_job_data = {}
  /\ nextId = 1
  /\ now = StartDate
  /\ clockSteps = 0
  /\ sLast = NoStoreCall

---------------------------------------------------------------------------
(* The pipeline, bls_connector.get_employment_projection and               *)
(* bls_job_mapper.fetch_bls_data, get_complete_job_data                    *)

\* the titles the pipeline is asked about: one whose code has a series and a
\* projection, one whose code has a projection only, and two nothing matches
PipeTitles ==
  { <<"S","o","f","t","w","a","r","e"," ","E","n","g","i","n","e","e","r">>,
    <<"N","u","r","s","e">>,
    <<"a","s","t","r","o","n","a","u","t">>,
    <<"z","o","o","k","e","e","p","e","r">> }

\* find_occupation_code on the table as it is at import, worked out once for
\* each title of the pipeline
ResolvedAtImport ==
  [job_title \in PipeTitles |->
     find_occupation_code(STATIC_JOB_TITLE_TO_SOC, job_title)]

\* find_occupation_code(job_title) on the table as it is
Resolve(table, job_title) ==
  IF table = STATIC_JOB_TITLE_TO_SOC /\ job_title \in PipeTitles
  THEN ResolvedAtImport[job_title]
  ELSE find_occupation_code(table, job_title)

\* the sample projections; percent_change, a float with one decimal, is
\* written in tenths
projections ==
  << [key |-> <<"1","5","-","1","2","5","2">>,
      projections |-> [current_employment |-> 1365500,
                       projected_employment |-> 1572900,
                       percent_change |-> 152,
                       annual_job_openings |-> 162900]],
     [key |-> <<"2","9","-","1","1","4","1">>,
      projections |-> [current_employment |-> 3130600,
                       projected_employment |-> 3458200,
                       percent_change |-> 105,
                       annual_job_openings |-> 203200]],
     [key |-> <<"4","3","-","9","0","2","1">>,
      projections |-> [current_employment |-> 149900,
                       projected_employment |-> 112400,
                       percent_change |-> -250,
                       annual_job_openings |-> 14200]] >>

\* occ_code in projections
Projected(occ_code) == \E i \in 1..Len(projections) : projections[i].key = occ_code

get_employment_projection(occ_code) ==
  IF Projected(occ_code)
  THEN [status |-> "success",
        occupation_code |-> Some(occ_code),
        projections |-> Some(projections[CHOOSE i \in 1..Len(projections) :
                                           projections[i].key = occ_code].projections),
        message |-> <<>>]
  ELSE [status |-> "error",
        occupation_code |-> None,
        projections |-> None,
        message |-> <<"No employment projections found for occupation code ">>
                      \o occ_code]

\* a field that is 0 where the projections are missing
ProjectionField_Zero(projection_data, name) ==
  IF projection_data.projections = None THEN Some(0)
  ELSE Some(projection_data.projections[1][name])

\* projection_data.get("projections", {}).get(name)
ProjectionField(projection_data, name) ==
  IF projection_data.projections = None THEN None
  ELSE Some(projection_data.projections[1][name])

\* what get_bls_data_from_db(occupation_code) can return: None with no
\* engine, when a store operation raises, when the code has no row or its
\* newest row is 90 days old; else that row as a dict
get_bls_data_from_db(eng, rows, occupation_code, today, fault) ==
  IF ~eng \/ fault \/ RowsFor(rows, occupation_code) = {}
  THEN {None}
  ELSE { IF IsFresh(DaysSinceUpdate(today, row.last_updated)) THEN Some(row) ELSE None :
         row \in NewestRows(rows, occupation_code) }

\* a save that reports success whatever happened
save_bls_data_to_db_AlwaysTrue(eng, rows, id, data, today, fault) ==
  IF eng /\ ~fault
  THEN [ok |-> TRUE,
        rows |-> SavedRows(rows, id, data, today),
        nextId |-> IF RowExists(rows, data.occupation_code) THEN id ELSE id + 1]
  ELSE [ok |-> TRUE, rows |-> rows, nextId |-> id]

\* save_bls_data_to_db(data): what it returns, and the table it leaves
save_bls_data_to_db(eng, rows, id, data, today, fault) ==
  IF eng /\ ~fault
  THEN [ok |-> TRUE,
        rows |-> SavedRows(rows, id, data, today),
        nextId |-> IF RowExists(rows, data.occupation_code) THEN id ELSE id + 1]
  ELSE [ok |-> FALSE, rows |-> rows, nextId |-> id]

\* the dict made of a row: dict(row._mapping)
DictOfRow(row) ==
  [id |-> Some(row.id),
   occupation_code |-> row.occupation_code,
   job_title |-> row.job_title,
   standardized_title |-> row.standardized_title,
   job_category |-> row.job_category,
   current_employment |-> row.current_employment,
   projected_employment |-> row.projected_employment,
   percent_change |-> row.percent_change,
   annual_job_openings |-> row.annual_job_openings,
   median_wage |-> row.median_wage,
   last_updated |-> Some(row.last_updated)]

\* datetime.datetime.now().strftime("%Y-%m-%d")
DateStamp(today) == strftime(today)

\* bls_data, the dict fetch_bls_data prepares for storage; it has no id
PreparedData(found, job_title, occupation_data, projection_data, today) ==
  [id |-> None,
   occupation_code |-> found.soc_code,
   job_title |-> job_title,
   standardized_title |-> found.title,
   job_category |-> found.category,
   current_employment |-> ProjectionField(projection_data, "current_employment"),
   projected_employment |-> ProjectionField(projection_data, "projected_employment"),
   percent_change |-> ProjectionField(projection_data, "percent_change"),
   annual_job_openings |-> ProjectionField(projection_data, "annual_job_openings"),
   median_wage |-> occupation_data.latest_value,
   last_updated |-> Some(DateStamp(today))]

\* a hit that goes on to the fetchers all the same
UseStored_Never(db_data) == FALSE

\* if db_data:
UseStored(db_data) == db_data # None

\* fetch_bls_data(job_title) on the state s (table, rows, nextId, engine,
\* api_key, cache, today) with the outcomes c of what it calls (db_fault and
\* save_fault: the store operation raises; upstream: what requests.post
\* meets): the dict it returns, the state it leaves and the calls it made.
\* Calls that do not overlap leave one row a code, so the read has one
\* outcome.
fetch_bls_data(s, job_title, c) ==
  LET found == Resolve(s.table, job_title)
      db_data == CHOOSE d \in get_bls_data_from_db(s.engine, s.rows, found.soc_code,
                                                    s.today, c.db_fault) : TRUE
  IN
  IF UseStored(db_data)
  THEN [bls_data |-> DictOfRow(db_data[1]),
        found |-> [soc_code |-> found.soc_code, title |-> found.title,
                   category |-> found.category, path |-> found.path],
        table |-> found.table, rows |-> s.rows, nextId |-> s.nextId,
        cache |-> s.cache,
        db_data |-> db_data,
        occupation_data |-> None, projection_data |-> None,
        posted |-> 0, saved |-> None]
  ELSE LET occ == get_occupation_data(s.api_key, s.cache, found.soc_code,
                                      s.today, c.upstream)
           projection_data == get_employment_projection(found.soc_code)
           bls_data == PreparedData(found, job_title, occ.result,
                                    projection_data, s.today)
           save == save_bls_data_to_db(s.engine, s.rows, s.nextId, bls_data,
                                       s.today, c.save_fault)
       IN [bls_data |-> bls_data,
           found |-> [soc_code |-> found.soc_code, title |-> found.title,
                      category |-> found.category, path |-> found.path],
           table |-> found.table, rows |-> save.rows, nextId |-> save.nextId,
           cache |-> occ.cache,
           db_data |-> db_data,
           occupation_data |-> Some(occ.result),
           projection_data |-> Some(projection_data),
           posted |-> Cardinality({i \in 1..Len(occ.calls) : occ.calls[i].posted}),
           saved |-> Some(save.ok)]

\* the dict get_complete_job_data returns: these keys and no other
ResultOf(soc_code, job_category, bls_data, risk_data) ==
  [job_title |-> bls_data.standardized_title,
   occupation_code |-> soc_code,
   job_category |-> job_category,
   employment |-> bls_data.current_employment,
   projected_employment |-> bls_data.projected_employment,
   employment_change_percent |-> bls_data.percent_change,
   annual_job_openings |-> bls_data.annual_job_openings,
   median_wage |-> bls_data.median_wage,
   year_1_risk |-> risk_data.year_1_risk,
   year_5_risk |-> risk_data.year_5_risk,
   risk_category |-> risk_data.risk_category,
   risk_factors |-> risk_data.risk_factors,
   protective_factors |-> risk_data.protective_factors,
   analysis |-> risk_data.analysis,
   last_updated |-> bls_data.last_updated]

\* get_complete_job_data(job_title): the title is resolved, then
\* fetch_bls_data resolves it again on the table the first resolution left
get_complete_job_data(s, job_title, c) ==
  LET first == Resolve(s.table, job_title)
      fetched == fetch_bls_data([s EXCEPT !.table = first.table], job_title, c)
      job_category == IF first.category # "General" THEN first.category
                      ELSE fetched.bls_data.job_category
      risk_data == calculate_ai_risk(job_title, job_category)
  IN [result |-> ResultOf(first.soc_code, job_category, fetched.bls_data, risk_data),
      first |-> [soc_code |-> first.soc_code, title |-> first.title,
                 category |-> first.category, path |-> first.path],
      fetched |-> fetched]

---------------------------------------------------------------------------
(* The pipeline as a state machine: get_complete_job_data is called time   *)
(* after time, and the clock moves between calls                           *)

\* times the clock moves on by the days a record is served
MaxPipeClockSteps == 1

NoPipeCall ==
  [op |-> "none", job_title |-> <<>>, today |-> StartDate,
   db_fault |-> FALSE, save_fault |-> FALSE, upstream_ok |-> FALSE,
   store_changed |-> FALSE, first |-> NoCall, fetched |-> None,
   result |-> None]

PipeIdle == pLast = NoPipeCall

\* the state a call finds
PipeState ==
  [table |-> JOB_TITLE_TO_SOC, rows |-> bls_job_data, nextId |-> nextId,
   engine |-> engine, api_key |-> BLS_API_KEY, cache |-> _api_cache,
   today |-> now]

\* the request a call for job_title would post: the series of the code the
\* title resolves to
SeriesAskedFor(table, job_title) ==
  LET code == Resolve(table, job_title).soc_code
  IN IF Mapped(code) THEN <<SeriesIdOf(code)>> ELSE <<>>

\* what the upstream may answer a call that posts a request for series_ids:
\* a body with data, or a RequestException
PipeUpstream(series_ids) ==
  { u \in Upstream(series_ids) :
      u.ok => (u.body.status = REQUEST_SUCCEEDED /\ ResultsOf(SeriesOf(u.body)) # <<>>) }

\* the outcomes of what a call for job_title calls: a store operation can
\* raise when there is an engine, the upstream is met when there is a
\* credential and a series to ask for
PipeOutcomes(table, job_title) ==
  LET series_ids == SeriesAskedFor(table, job_title) IN
  { [db_fault |-> db_fault, save_fault |-> save_fault, upstream |-> upstream] :
      db_fault \in (IF engine THEN BOOLEAN ELSE {FALSE}),
      save_fault \in (IF engine THEN BOOLEAN ELSE {FALSE}),
      upstream \in (IF series_ids # <<>> /\ Truthy(BLS_API_KEY)
                    THEN PipeUpstream(series_ids)
                    ELSE {u \in PipeUpstream(series_ids) : ~u.ok}) }

GetCompleteJobData ==
  \E job_title \in PipeTitles :
    \E c \in PipeOutcomes(Resolve(JOB_TITLE_TO_SOC, job_title).table,
                          job_title) :
      \E got \in {get_complete_job_data(PipeState, job_title, c)} :
      LET fetched == got.fetched
      IN /\ JOB_TITLE_TO_SOC' = fetched.table
         /\ bls_job_data' = fetched.rows
         /\ nextId' = fetched.nextId
         /\ _api_cache' = fetched.cache
         /\ pLast' = [op |-> "get_complete_job_data",
                      job_title |-> job_title, today |-> now,
                      db_fault |-> c.db_fault, save_fault |-> c.save_fault,
                      upstream_ok |-> c.upstream.ok,
                      store_changed |-> (fetched.rows # bls_job_data),
                      first |-> got.first,
                      fetched |-> Some([bls_data |-> fetched.bls_data,
                                        found |-> fetched.found,
                                        db_data |-> fetched.db_data,
                                        occupation_data |-> fetched.occupation_data,
                                        projection_data |-> fetched.projection_data,
                                        posted |-> fetched.posted,
                                        saved |-> fetched.saved]),
                      result |-> Some(got.result)]
         /\ UNCHANGED <<rTitle, rResult, engine, now, clockSteps, sLast,
                        BLS_API_KEY, fLast, received>>
         /\ UNCHANGED <<normVars, riskVars, threadVars, saveVars, formatVars, callVars>>

\* the days a record is served pass between two calls
PipeAdvanceClock ==
  /\ clockSteps < MaxPipeClockSteps
  /\ now' = AddDays(now, FRESH_DAYS)
  /\ clockSteps' = clockSteps + 1
  /\ UNCHANGED <<engine, bls_job_data, nextId, sLast>>
  /\ UNCHANGED <<normVars, resolverVars, fetchVars, riskVars, threadVars, saveVars, pipeVars, formatVars, callVars>>

PipeNext == PipeAdvanceClock \/ GetCompleteJobData

\* the store and the credential as the process finds them
PipeStoreInit ==
  /\ engine \in BOOLEAN
  /\ bls_job_data = {}
  /\ nextId = 1
  /\ now = StartDate
  /\ clockSteps = 0
  /\ sLast = NoStoreCall

PipeFetchInit ==
  /\ BLS_API_KEY \in {None, Some(<<"k","e","y">>)}
  /\ _api_cache = {}
  /\ fLast = NoFetchCall
  /\ received = {}

---------------------------------------------------------------------------
(* Python float arithmetic, as generate_employment_trend uses it: an int   *)
(* divided by an int, a float times an int, an int plus a float, and       *)
(* int(). A float is a sign, a significand n and an exponent e: its         *)
(* magnitude is n * 2^e. The significand is a natural number of any size,   *)
(* written as its digits in base BASE, the least significant first and the *)
(* most significant not 0. Every operation gives the exact result rounded  *)
(* to MANT_DIG binary digits, ties to the even significand.                *)

\* sys.float_info.mant_dig
MANT_DIG == 53

LIMB_BITS == 10

BASE == 2 ^ LIMB_BITS

\* the element of a set of one element
Only(S) == CHOOSE v \in S : TRUE

\* the digits of an int >= 0
RECURSIVE DigitsOf(_)
DigitsOf(n) == IF n = 0 THEN <<>> ELSE <<n % BASE>> \o DigitsOf(n \div BASE)

\* the int of a few digits
RECURSIVE IntOf(_)
IntOf(A) == IF A = <<>> THEN 0 ELSE Head(A) + BASE * IntOf(Tail(A))

\* digits without zeros at the most significant end
RECURSIVE Norm(_)
Norm(A) ==
  IF A # <<>> /\ A[Len(A)] = 0 THEN Norm(SubSeq(A, 1, Len(A) - 1)) ELSE A

Digit(A) == IF A = <<>> THEN 0 ELSE Head(A)

Rest(A) == IF A = <<>> THEN <<>> ELSE Tail(A)

\* A + B + carry
RECURSIVE AddN(_, _, _)
AddN(A, B, carry) ==
  IF A = <<>> /\ B = <<>> THEN DigitsOf(carry)
  ELSE Only({ <<t % BASE>> \o AddN(Rest(A), Rest(B), t \div BASE) :
              t \in {Digit(A) + Digit(B) + carry} })

\* A - B - borrow, for A >= B; the result may end in zeros
RECURSIVE SubN(_, _, _)
SubN(A, B, borrow) ==
  IF A = <<>> THEN <<>>
  ELSE Only({ <<IF t < 0 THEN t + BASE ELSE t>>
              \o SubN(Tail(A), Rest(B), IF t < 0 THEN 1 ELSE 0) :
              t \in {Head(A) - Digit(B) - borrow} })

\* A < B
RECURSIVE LessN(_, _)
LessN(A, B) ==
  \/ Len(A) < Len(B)
  \/ /\ Len(A) = Len(B)
     /\ A # <<>>
     /\ \/ A[Len(A)] < B[Len(B)]
        \/ /\ A[Len(A)] = B[Len(B)]
           /\ LessN(SubSeq(A, 1, Len(A) - 1), SubSeq(B, 1, Len(B) - 1))

\* A * k + carry, for an int k
RECURSIVE MulN(_, _, _)
MulN(A, k, carry) ==
  IF A = <<>> THEN DigitsOf(carry)
  ELSE Only({ <<t % BASE>> \o MulN(Tail(A), k, t \div BASE) :
              t \in {Head(A) * k + carry} })

\* the quotient, which may end in zeros, and the remainder of A by an int b
RECURSIVE DivN(_, _)
DivN(A, b) ==
  IF A = <<>> THEN [q |-> <<>>, r |-> 0]
  ELSE Only({ [q |-> <<(hi.r * BASE + Head(A)) \div b>> \o hi.q,
               r |-> (hi.r * BASE + Head(A)) % b] :
              hi \in {DivN(Tail(A), b)} })

\* the number of binary digits of an int 0 <= n < 2^31
BitLength(n) == IF n = 0 THEN 0 ELSE Only({ k \in 1..31 : 2 ^ (k - 1) <= n /\ (k = 31 \/ n < 2 ^ k) })

\* the number of binary digits of A
BitLen(A) ==
  IF A = <<>> THEN 0 ELSE LIMB_BITS * (Len(A) - 1) + BitLength(A[Len(A)])

Odd(A) == A # <<>> /\ Head(A) % 2 = 1

\* A * 2^k
ShiftLeft(A, k) ==
  IF A = <<>> THEN <<>>
  ELSE [i \in 1..(k \div LIMB_BITS) |-> 0] \o MulN(A, 2 ^ (k % LIMB_BITS), 0)

\* A \div 2^k, and whether the digits dropped were not all 0
ShiftRight(A, k) ==
  LET whole == IF k \div LIMB_BITS >= Len(A) THEN Len(A) ELSE k \div LIMB_BITS
      dropped == SubSeq(A, 1, whole)
  IN Only({ [q |-> Norm(d.q),
             more |-> d.r # 0 \/ \E i \in 1..whole : dropped[i] # 0] :
            d \in {DivN(SubSeq(A, whole + 1, Len(A)), 2 ^ (k % LIMB_BITS))} })

Zero == [neg |-> FALSE, n |-> <<>>, e |-> 0]

\* the float nearest to A * 2^e (and a little more iff sticky): ties go to
\* the even significand
RoundN(neg, A, e, sticky) ==
  IF A = <<>> THEN Zero
  ELSE IF BitLen(A) <= MANT_DIG THEN [neg |-> neg, n |-> A, e |-> e]
  ELSE LET extra == BitLen(A) - MANT_DIG IN
       Only({ Only({ IF BitLen(kept) > MANT_DIG
                     THEN [neg |-> neg, n |-> ShiftRight(kept, 1).q, e |-> e + extra + 1]
                     ELSE [neg |-> neg, n |-> kept, e |-> e + extra] :
                     kept \in { LET keep == ShiftRight(guarded.q, 1).q
                                    up == /\ Odd(guarded.q)
                                          /\ (sticky \/ guarded.more \/ Odd(keep))
                                IN IF up THEN AddN(keep, <<>>, 1) ELSE keep } }) :
              guarded \in {ShiftRight(A, extra - 1)} })

\* a / b of two ints, b > 0: the quotient to more than MANT_DIG binary
\* digits, the remainder telling whether anything is left
TrueDivide(a, b) ==
  LET places == MANT_DIG + 1 + BitLength(b) IN
  Only({ RoundN(a < 0, Norm(d.q), 0 - places, d.r # 0) :
         d \in {DivN(ShiftLeft(DigitsOf(IF a < 0 THEN 0 - a ELSE a), places), b)} })

\* x * i of a float and an int
MulInt(x, i) ==
  Only({ RoundN(x.neg # (i < 0), product, x.e, FALSE) :
         product \in {MulN(x.n, IF i < 0 THEN 0 - i ELSE i, 0)} })

\* c + x of an int c >= 0 and a float x with x.e <= 0
AddInt(c, x) ==
  Only({ IF ~x.neg THEN RoundN(FALSE, AddN(A, x.n, 0), x.e, FALSE)
         ELSE IF LessN(A, x.n) THEN RoundN(TRUE, Norm(SubN(x.n, A, 0)), x.e, FALSE)
         ELSE RoundN(FALSE, Norm(SubN(A, x.n, 0)), x.e, FALSE) :
         A \in {ShiftLeft(DigitsOf(c), 0 - x.e)} })

\* int(x) of a float with x.e <= 0: the digits before the point, the sign kept
Trunc(x) ==
  Only({ IF x.neg THEN 0 - IntOf(whole) ELSE IntOf(whole) :
         whole \in {ShiftRight(x.n, 0 - x.e).q} })

---------------------------------------------------------------------------
(* job_api_integration_database_only.py: generate_employment_trend         *)

\* a value `if not current` lets through: set, and not 0
Present(n) == n # None /\ n[1] # 0

\* value = current + (annual_change * i); int(value)
TrendValue(current, annual_change, i) ==
  Only({ Trunc(value) :
         value \in { AddInt(current, change) : change \in {MulInt(annual_change, i)} } })

\* generate_employment_trend(current, projected, num_years): current and
\* projected are None or Some(int)
generate_employment_trend(current, projected, num_years) ==
  IF ~Present(current) \/ ~Present(projected) \/ num_years <= 1
  THEN (IF Present(current) THEN <<current[1]>> ELSE <<>>)
  ELSE LET total_change == projected[1] - current[1] IN
       Only({ [k \in 1..num_years |-> TrendValue(current[1], annual_change, k - 1)] :
              annual_change \in {TrueDivide(total_change, num_years - 1)} })

---------------------------------------------------------------------------
(* job_api_integration_database_only.py: calculate_ai_risk_from_category,  *)
(* format_database_job_data, format_bls_api_data                           *)

\* the branches of calculate_ai_risk_from_category in their order: the two
\* words looked for in job_category and the scores and the tier returned
category_patterns ==
  << [words |-> {<<"C","o","m","p","u","t","e","r">>, <<"T","e","c","h","n","o","l","o","g","y">>},
      year_1_risk |-> 15, year_5_risk |-> 35, risk_category |-> "Moderate"],
     [words |-> {<<"H","e","a","l","t","h","c","a","r","e">>, <<"M","e","d","i","c","a","l">>},
      year_1_risk |-> 10, year_5_risk |-> 25, risk_category |-> "Low"],
     [words |-> {<<"E","d","u","c","a","t","i","o","n">>, <<"T","e","a","c","h","i","n","g">>},
      year_1_risk |-> 15, year_5_risk |-> 30, risk_category |-> "Low"],
     [words |-> {<<"M","a","n","a","g","e","m","e","n","t">>, <<"B","u","s","i","n","e","s","s">>},
      year_1_risk |-> 25, year_5_risk |-> 50, risk_category |-> "Moderate"] >>

\* the else branch
other_pattern ==
  [words |-> {}, year_1_risk |-> 20, year_5_risk |-> 40, risk_category |-> "Moderate"]

\* "Computer" in job_category or "Technology" in job_category
Matches(job_category, pattern) ==
  \E word \in pattern.words : Contains(job_category, word)

\* calculate_ai_risk_from_category(job_category, occupation_code): the first
\* branch whose words job_category contains, the else branch if none
calculate_ai_risk_from_category(job_category) ==
  LET hits == { i \in 1..Len(category_patterns) : Matches(job_category, category_patterns[i]) }
      pattern == IF hits = {} THEN other_pattern
                 ELSE category_patterns[CHOOSE i \in hits : \A j \in hits : i <= j]
  IN [year_1_risk |-> pattern.year_1_risk,
      year_5_risk |-> pattern.year_5_risk,
      risk_category |-> pattern.risk_category]

\* trend_years = list(range(2022, 2033))
trend_years == [i \in 1..11 |-> 2021 + i]

\* the trend of the two format functions: generate_employment_trend is
\* called only if both values are truthy
TrendData(current_employment, projected_employment) ==
  [years |-> trend_years,
   employment |-> IF Present(current_employment) /\ Present(projected_employment)
                  THEN generate_employment_trend(current_employment,
                                                 projected_employment, Len(trend_years))
                  ELSE <<>>]

\* format_database_job_data(row, original_job_title): the fields computed
\* from the row's job_category, current_employment and projected_employment
format_database_job_data(job_category, current_employment, projected_employment) ==
  [source |-> "bls_database",
   projections |-> [current_employment |-> current_employment,
                    projected_employment |-> projected_employment],
   risk_data |-> calculate_ai_risk_from_category(job_category),
   trend_data |-> TrendData(current_employment, projected_employment)]

\* bls_data.get(key, default), for an entry that is None when bls_data has
\* no such key and Some(value) when it has
GetOr(entry, default) == IF entry = None THEN default ELSE entry[1]

\* format_bls_api_data(bls_data, original_job_title): the fields computed
\* from bls_data's job_category, current_employment and projected_employment
format_bls_api_data(bls_data) ==
  LET current_emp == GetOr(bls_data.current_employment, Some(0))
      projected_emp == GetOr(bls_data.projected_employment, Some(0))
  IN [source |-> "bls_api",
      projections |-> [current_employment |-> current_emp,
                       projected_employment |-> projected_emp],
      risk_data |-> calculate_ai_risk_from_category(
                      GetOr(bls_data.job_category, <<"G","e","n","e","r","a","l">>)),
      trend_data |-> TrendData(current_emp, projected_emp)]

---------------------------------------------------------------------------
(* The functions of job_api_integration_database_only.py as a state        *)
(* machine: the arguments are drawn, and one function applied to them      *)

\* employment figures: absent, 0, and numbers whose differences divide and
\* do not divide evenly
Employments ==
  {None, Some(0), Some(1), Some(30), Some(62), Some(100), Some(200)}

\* lengths of a trend: none, one, two, a length whose steps are sevenths, and
\* the eleven years of the format functions
TrendLengths == {0, 1, 2, 8, 11}

\* job categories: categories of the classification table, the category of
\* an unmapped code, and strings that name two branches or none
FormatCategories ==
  { <<"C","o","m","p","u","t","e","r"," ","a","n","d"," ","M","a","t","h","e","m","a","t","i","c","a","l">>,
    <<"M","a","n","a","g","e","m","e","n","t">>,
    <<"B","u","s","i","n","e","s","s"," ","a","n","d"," ","F","i","n","a","n","c","i","a","l">>,
    <<"E","d","u","c","a","t","i","o","n","a","l"," ","I","n","s","t","r","u","c","t","i","o","n">>,
    <<"H","e","a","l","t","h","c","a","r","e"," ","P","r","a","c","t","i","t","i","o","n","e","r","s">>,
    <<"H","e","a","l","t","h","c","a","r","e"," ","S","u","p","p","o","r","t">>,
    <<"L","e","g","a","l">>,
    <<"G","e","n","e","r","a","l">>,
    <<"M","e","d","i","c","a","l"," ","T","e","c","h","n","o","l","o","g","y">>,
    <<"c","o","m","p","u","t","e","r">>,
    <<>> }

NoFormatCall == [op |-> "none", trend |-> <<>>, risk_data |-> None]

FormatInit ==
  /\ jCategory \in FormatCategories
  /\ jCurrent \in Employments
  /\ jProjected \in Employments
  /\ jYears \in TrendLengths
  /\ jKeys \in BOOLEAN
  /\ jLast = NoFormatCall

FormatIdle ==
  /\ jCategory = <<>>
  /\ jCurrent = None
  /\ jProjected = None
  /\ jYears = 0
  /\ jKeys = FALSE
  /\ jLast = NoFormatCall

GenerateEmploymentTrend ==
  /\ jLast = NoFormatCall
  /\ jLast' = [op |-> "generate_employment_trend",
               trend |-> generate_employment_trend(jCurrent, jProjected, jYears),
               risk_data |-> None]
  /\ UNCHANGED <<jCategory, jCurrent, jProjected, jYears, jKeys>>
  /\ UNCHANGED <<normVars, resolverVars, storeVars, fetchVars, riskVars, threadVars, saveVars, pipeVars, callVars>>

CalculateAiRiskFromCategory ==
  /\ jLast = NoFormatCall
  /\ jLast' = [op |-> "calculate_ai_risk_from_category",
               trend |-> <<>>,
               risk_data |-> Some(calculate_ai_risk_from_category(jCategory))]
  /\ UNCHANGED <<jCategory, jCurrent, jProjected, jYears, jKeys>>
  /\ UNCHANGED <<normVars, resolverVars, storeVars, fetchVars, riskVars, threadVars, saveVars, pipeVars, callVars>>

\* the row read from the store holds the three drawn values
FormatDatabaseJobData ==
  /\ jLast = NoFormatCall
  /\ \E got \in {format_database_job_data(jCategory, jCurrent, jProjected)} :
       jLast' = [op |-> "format_database_job_data",
                 trend |-> got.trend_data.employment,
                 risk_data |-> Some(got.risk_data)]
  /\ UNCHANGED <<jCategory, jCurrent, jProjected, jYears, jKeys>>
  /\ UNCHANGED <<normVars, resolverVars, storeVars, fetchVars, riskVars, threadVars, saveVars, pipeVars, callVars>>

\* bls_data as the format function is given it: with the three drawn values
\* under their keys, or with none of the three keys
BlsData ==
  IF jKeys
  THEN [job_category |-> Some(jCategory),
        current_employment |-> Some(jCurrent),
        projected_employment |-> Some(jProjected)]
  ELSE [job_category |-> None, current_employment |-> None,
        projected_employment |-> None]

FormatBlsApiData ==
  /\ jLast = NoFormatCall
  /\ \E got \in {format_bls_api_data(BlsData)} :
       jLast' = [op |-> "format_bls_api_data",
                 trend |-> got.trend_data.employment,
                 risk_data |-> Some(got.risk_data)]
  /\ UNCHANGED <<jCategory, jCurrent, jProjected, jYears, jKeys>>
  /\ UNCHANGED <<normVars, resolverVars, storeVars, fetchVars, riskVars, threadVars, saveVars, pipeVars, callVars>>

FormatNext ==
  \/ GenerateEmploymentTrend
  \/ CalculateAiRiskFromCategory
  \/ FormatDatabaseJobData
  \/ FormatBlsApiData

---------------------------------------------------------------------------
(* get_complete_job_data called from several threads on the one            *)
(* JOB_TITLE_TO_SOC and the one store. A call resolves its title, and       *)
(* fetch_bls_data then resolves it again: other threads run between the     *)
(* two. Each resolution and the statistics step are taken here as one step, *)
(* which is one of the schedules the interpreter allows.                    *)

CallThreads == {1, 2}

\* a title that contains the static key "teacher" and is the title of a
\* sample occupation, a title only that sample occupation contains, and a
\* title that is a static key
CallTitles ==
  { <<"B","u","s","i","n","e","s","s"," ","T","e","a","c","h","e","r","s",","," ","P","o","s","t","s","e","c","o","n","d","a","r","y">>,
    <<"p","o","s","t","s","e","c","o","n","d","a","r","y">>,
    <<"N","u","r","s","e">> }

NoCallReturned ==
  [op |-> "none", thread |-> 0, job_title |-> <<>>, result |-> None,
   found |-> NoCall, stored_under |-> None]

CallsIdle ==
  /\ gPc = [t \in CallThreads |-> "idle"]
  /\ gTitle = [t \in CallThreads |-> <<>>]
  /\ gFirst = [t \in CallThreads |-> NoCall]
  /\ gLast = NoCallReturned

\* soc_code, standardized_title, job_category = find_occupation_code(job_title)
CallResolve(t) ==
  /\ gPc[t] = "idle"
  /\ \E job_title \in CallTitles :
       \E first \in {find_occupation_code(JOB_TITLE_TO_SOC, job_title)} :
         /\ JOB_TITLE_TO_SOC' = first.table
         /\ gTitle' = [gTitle EXCEPT ![t] = job_title]
         /\ gFirst' = [gFirst EXCEPT ![t] =
                         [soc_code |-> first.soc_code, title |-> first.title,
                          category |-> first.category, path |-> first.path]]
         /\ gPc' = [gPc EXCEPT ![t] = "resolved"]
  /\ UNCHANGED <<rTitle, rResult, gLast>>
  /\ UNCHANGED <<normVars, storeVars, fetchVars, riskVars, threadVars, saveVars, pipeVars, formatVars>>

\* bls_data = fetch_bls_data(job_title), and the rest of the call
CallFetch(t) ==
  /\ gPc[t] = "resolved"
  /\ \E c \in PipeOutcomes(JOB_TITLE_TO_SOC, gTitle[t]) :
       \E fetched \in {fetch_bls_data(PipeState, gTitle[t], c)} :
         LET first == gFirst[t]
             job_category == IF first.category # "General" THEN first.category
                             ELSE fetched.bls_data.job_category
             risk_data == calculate_ai_risk(gTitle[t], job_category)
         IN /\ JOB_TITLE_TO_SOC' = fetched.table
            /\ bls_job_data' = fetched.rows
            /\ nextId' = fetched.nextId
            /\ _api_cache' = fetched.cache
            /\ gLast' = [op |-> "get_complete_job_data", thread |-> t,
                         job_title |-> gTitle[t],
                         result |-> Some(ResultOf(first.soc_code, job_category,
                                                  fetched.bls_data, risk_data)),
                         found |-> fetched.found,
                         stored_under |->
                           IF fetched.rows = bls_job_data THEN None
                           ELSE Some({row.occupation_code :
                                        row \in fetched.rows \ bls_job_data})]
  /\ gPc' = [gPc EXCEPT ![t] = "idle"]
  /\ gTitle' = [gTitle EXCEPT ![t] = <<>>]
  /\ gFirst' = [gFirst EXCEPT ![t] = NoCall]
  /\ UNCHANGED <<rTitle, rResult, engine, now, clockSteps, sLast,
                 BLS_API_KEY, fLast, received>>
  /\ UNCHANGED <<normVars, riskVars, threadVars, saveVars, pipeVars, formatVars>>

CallsNext == \E t \in CallThreads : CallResolve(t) \/ CallFetch(t)

---------------------------------------------------------------------------
(* Specifications: one per component, the others left in their initial    *)
(* state                                                                   *)

InitNormalize == NormInit /\ ResolverInit /\ StoreIdle /\ FetchIdle /\ RiskIdle /\ ThreadsIdle /\ SaversIdle /\ PipeIdle /\ FormatIdle /\ CallsIdle

SpecNormalize == InitNormalize /\ [][NormNext]_vars

InitResolve == NormIdle /\ ResolverInit /\ StoreIdle /\ FetchIdle /\ RiskIdle /\ ThreadsIdle /\ SaversIdle /\ PipeIdle /\ FormatIdle /\ CallsIdle

SpecResolve == InitResolve /\ [][ResolveNext]_vars

InitStore == NormIdle /\ ResolverInit /\ StoreInit /\ FetchIdle /\ RiskIdle /\ ThreadsIdle /\ SaversIdle /\ PipeIdle /\ FormatIdle /\ CallsIdle

SpecStore == InitStore /\ [][StoreNext]_vars

InitFetch == NormIdle /\ ResolverInit /\ StoreIdle /\ FetchInit /\ RiskIdle /\ ThreadsIdle /\ SaversIdle /\ PipeIdle /\ FormatIdle /\ CallsIdle

SpecFetch == InitFetch /\ [][FetchNext]_vars

InitRisk == NormIdle /\ ResolverInit /\ StoreIdle /\ FetchIdle /\ RiskInit /\ ThreadsIdle /\ SaversIdle /\ PipeIdle /\ FormatIdle /\ CallsIdle

SpecRisk == InitRisk /\ [][RiskNext]_vars

InitThreads == NormIdle /\ ResolverInit /\ StoreIdle /\ FetchIdle /\ RiskIdle /\ ThreadsIdle /\ SaversIdle /\ PipeIdle /\ FormatIdle /\ CallsIdle

SpecThreads == InitThreads /\ [][ThreadsNext]_vars

InitSavers == NormIdle /\ ResolverInit /\ SaversStoreInit /\ FetchIdle /\ RiskIdle /\ ThreadsIdle /\ SaversIdle /\ PipeIdle /\ FormatIdle /\ CallsIdle

SpecSavers == InitSavers /\ [][SaversNext]_vars

InitPipe == NormIdle /\ ResolverInit /\ PipeStoreInit /\ PipeFetchInit /\ RiskIdle /\ ThreadsIdle /\ SaversIdle /\ PipeIdle /\ FormatIdle /\ CallsIdle

SpecPipe == InitPipe /\ [][PipeNext]_vars

InitFormat == NormIdle /\ ResolverInit /\ StoreIdle /\ FetchIdle /\ RiskIdle /\ ThreadsIdle /\ SaversIdle /\ PipeIdle /\ FormatInit /\ CallsIdle

SpecFormat == InitFormat /\ [][FormatNext]_vars

InitCalls == NormIdle /\ ResolverInit /\ PipeStoreInit /\ PipeFetchInit /\ RiskIdle /\ ThreadsIdle /\ SaversIdle /\ PipeIdle /\ FormatIdle /\ CallsIdle

SpecCalls == InitCalls /\ [][CallsNext]_vars

---------------------------------------------------------------------------
(* Claims about the normalizer *)

\* a base that ends neither in whitespace nor, lower-cased, in a suffix token
CleanBase(base) ==
  /\ base = <<>> \/ base[Len(base)] \notin Whitespace
  /\ \A i \in 1..Len(suffixes) : ~endswith(lower(base), suffixes[i])

\* C1 as stated: for every title, in any case, with any surrounding
\* whitespace and any number of trailing suffix tokens, normalizing the
\* normalized title gives the normalized title again.
C1_IdempotentAnyTitle ==
  nPc = "done" => nTwice = nOnce

\* C1 as amended: normalization is idempotent on every title that, in any
\* case and with any surrounding whitespace, is a base followed by at most
\* one suffix token, where the base ends neither in whitespace nor in a
\* suffix token.
C1_IdempotentOneSuffix ==
  (nPc = "done" /\ Len(nChain) <= 1 /\ CleanBase(nBase)) => nTwice = nOnce

\* "  SOFTWARE ENGINEER III " has been normalized to "software engineer"
C1_Witness ==
  /\ nPc = "done"
  /\ Len(nChain) = 1
  /\ CleanBase(nBase)
  /\ nCase = "upper"
  /\ nPad[1] # <<>>
  /\ nOnce = lower(nBase)
  /\ nOnce # <<>>

---------------------------------------------------------------------------
(* Claims about the resolver *)

\* the items of the table a standardized title matches directly or partially
RelatedItems(table, std_title) ==
  { i \in 1..Len(table) :
      \/ table[i].key = std_title
      \/ Contains(table[i].key, std_title)
      \/ Contains(std_title, table[i].key) }

\* the entries of the sample SOC list whose title contains the lowered query
Candidates(job_title) ==
  { j \in 1..Len(soc_codes) :
      Contains(lower(soc_codes[j].title), lower(job_title)) }

Min(S) == CHOOSE x \in S : \A y \in S : x <= y

\* the category SOC_TO_CATEGORY gives the three-character prefix of a code
CategoryOfPrefix(code) ==
  LET e == CHOOSE e \in { SOC_TO_CATEGORY[i] : i \in 1..Len(SOC_TO_CATEGORY) } :
             e.prefix = SubSeq(code, 1, 3)
  IN  e.category

\* C2: in every reachable state of the classification table (the static
\* entries plus the discoveries added so far), find_occupation_code of a
\* title that is verbatim a key of the table returns the code the table
\* maps that key to.
C2_VerbatimKeyResolves ==
  \A i \in 1..Len(JOB_TITLE_TO_SOC) :
    find_occupation_code(JOB_TITLE_TO_SOC, JOB_TITLE_TO_SOC[i].key).soc_code
      = JOB_TITLE_TO_SOC[i].code

\* "human resources specialist", a key that does not normalize to itself,
\* was looked up in a table that holds a discovery, and got its own code
C2_Witness ==
  /\ Len(JOB_TITLE_TO_SOC) > Len(STATIC_JOB_TITLE_TO_SOC)
  /\ rTitle = <<"h","u","m","a","n"," ","r","e","s","o","u","r","c","e","s"," ","s","p","e","c","i","a","l","i","s","t">>
  /\ rResult.path = "partial"
  /\ rResult.soc_code = <<"1","3","-","1","0","7","1">>

\* C3: for every key k of the static table and every suffix s of the
\* normalizer's list, find_occupation_code(k + s), in lower or upper case,
\* returns the code mapped to k and the category of that code's prefix, in
\* every reachable state of the table; "Software Engineer III" resolves to
\* 15-1252 and "Registered Nurse" to 29-1141, Healthcare Practitioners.
C3_KeyWithSuffixResolves ==
  /\ \A i \in 1..Len(STATIC_JOB_TITLE_TO_SOC) :
       \A j \in 1..Len(suffixes) :
         \A case \in {"lower", "upper"} :
           LET k == STATIC_JOB_TITLE_TO_SOC[i]
               r == find_occupation_code(JOB_TITLE_TO_SOC,
                                         InCase(k.key \o suffixes[j], case))
           IN  /\ r.soc_code = k.code
               /\ r.category = CategoryOfPrefix(k.code)
  /\ find_occupation_code(JOB_TITLE_TO_SOC,
                          <<"S","o","f","t","w","a","r","e"," ","E","n","g","i","n","e","e","r"," ","I","I","I">>).soc_code
       = <<"1","5","-","1","2","5","2">>
  /\ LET r == find_occupation_code(JOB_TITLE_TO_SOC, <<"R","e","g","i","s","t","e","r","e","d"," ","N","u","r","s","e">>)
     IN  /\ r.soc_code = <<"2","9","-","1","1","4","1">>
         /\ r.category = "Healthcare Practitioners"

\* find_occupation_code("Software Engineer III") has returned 15-1252
C3_Witness ==
  /\ rTitle = <<"S","o","f","t","w","a","r","e"," ","E","n","g","i","n","e","e","r"," ","I","I","I">>
  /\ rResult.path = "direct"
  /\ rResult.soc_code = <<"1","5","-","1","2","5","2">>
  /\ rResult.category = "Computer and Mathematical"

\* C4: in every reachable state of the table a call returns a result for
\* every title. When the normalized title is no key, no key contains it or
\* is contained in it, and the fallback search has no candidate, the result
\* is exactly ("00-0000", the raw title, "General"); in every other case the
\* code is not the sentinel: it is the code of a related table entry, or,
\* when there is none, that of the first candidate.
C4_SentinelOnlyWhenNothingMatches ==
  \A job_title \in ResolveTitles :
    LET r == find_occupation_code(JOB_TITLE_TO_SOC, job_title)
        related == RelatedItems(JOB_TITLE_TO_SOC, standardize_job_title(job_title))
        candidates == Candidates(job_title)
    IN  IF related = {} /\ candidates = {}
        THEN /\ r.soc_code = UNKNOWN_CODE
             /\ r.title = job_title
             /\ r.category = "General"
        ELSE /\ r.soc_code # UNKNOWN_CODE
             /\ IF related # {}
                THEN r.soc_code \in { JOB_TITLE_TO_SOC[i].code : i \in related }
                ELSE r.soc_code = soc_codes[Min(candidates)].code

\* find_occupation_code("astronaut") has returned the sentinel
C4_Witness ==
  /\ rTitle = <<"a","s","t","r","o","n","a","u","t">>
  /\ rResult = [soc_code |-> UNKNOWN_CODE, title |-> rTitle,
                category |-> "General", path |-> "unknown"]

\* C5: across find_occupation_code calls no item of the table is removed or
\* changed; a call adds at most one item, and adds one only when the direct
\* and the partial match both failed and the fallback search returned a
\* candidate.
C5_TableOnlyGrows ==
  [][ /\ Len(JOB_TITLE_TO_SOC') \in { Len(JOB_TITLE_TO_SOC), Len(JOB_TITLE_TO_SOC) + 1 }
      /\ \A i \in 1..Len(JOB_TITLE_TO_SOC) :
           /\ i <= Len(JOB_TITLE_TO_SOC')
           /\ JOB_TITLE_TO_SOC'[i] = JOB_TITLE_TO_SOC[i]
      /\ JOB_TITLE_TO_SOC' # JOB_TITLE_TO_SOC =>
           /\ RelatedItems(JOB_TITLE_TO_SOC, standardize_job_title(rTitle')) = {}
           /\ Candidates(rTitle') # {}
    ]_resolverVars

\* a second discovery has been added behind the first
C5_Witness ==
  /\ Len(JOB_TITLE_TO_SOC) = Len(STATIC_JOB_TITLE_TO_SOC) + 2
  /\ rResult.path = "search"
  /\ JOB_TITLE_TO_SOC[Len(JOB_TITLE_TO_SOC)].code = rResult.soc_code

---------------------------------------------------------------------------
(* Claims about the statistics store *)

\* calendar order of two dates
DateLeq(a, b) ==
  \/ a[1] < b[1]
  \/ a[1] = b[1] /\ a[2] < b[2]
  \/ a[1] = b[1] /\ a[2] = b[2] /\ a[3] <= b[3]

\* today is at most n days after the date the string last_updated names
WithinDays(last_updated, today, n) ==
  DateLeq(today, AddDays(strptime(last_updated), n))

\* C6: a read that reaches the store returns the most recently updated
\* record of the code if and only if that record's last_updated is fewer
\* than 90 whole days before now (at most 89), and None otherwise; no read,
\* hit or miss, deletes or modifies a record.
C6_FreshnessWindow ==
  [][ sLast'.op = "get" =>
        /\ bls_job_data' = bls_job_data
        /\ sLast'.ok =>
             LET newest == NewestRows(bls_job_data, sLast'.code)
             IN  /\ sLast'.result # None =>
                      /\ sLast'.result[1] \in newest
                      /\ WithinDays(sLast'.result[1].last_updated, now, 89)
                 /\ sLast'.result = None =>
                      \A r \in newest : ~WithinDays(r.last_updated, now, 89)
    ]_storeVars

\* a read has missed on a record exactly 90 days old, which is still stored
C6_Witness ==
  /\ sLast.op = "get"
  /\ sLast.ok
  /\ sLast.result = None
  /\ \E r \in RowsFor(bls_job_data, sLast.code) :
       AddDays(strptime(r.last_updated), 90) = now

\* C7: after any sequence of save_bls_data_to_db calls, one after the other,
\* the store holds at most one record per occupation code.
C7_OneRecordPerCode ==
  \A r \in bls_job_data :
    \A q \in bls_job_data : r.occupation_code = q.occupation_code => r = q

\* both codes are stored and the code saved first has been saved again: its
\* record was updated in place
C7_Witness ==
  /\ sLast.op = "save"
  /\ sLast.ok
  /\ Cardinality(bls_job_data) = 2
  /\ \E r \in RowsFor(bls_job_data, sLast.code) :
       /\ r.id = 1
       /\ r.job_title = sLast.data[1].job_title
       /\ r.median_wage = sLast.data[1].median_wage

\* C8 as stated: every successful save leaves the saved code's record with
\* last_updated equal to today's date.
C8_SavedRecordDatedToday ==
  (sLast.op = "save" /\ sLast.ok) =>
    \A r \in RowsFor(bls_job_data, sLast.code) : r.last_updated = strftime(now)

\* C8 as amended: every successful save leaves the saved code's record,
\* inserted or updated, with last_updated equal to the last_updated the
\* caller passed in data, and to today's date when the caller passed none.
C8_SavedRecordDatedAsGiven ==
  (sLast.op = "save" /\ sLast.ok) =>
    /\ RowsFor(bls_job_data, sLast.code) # {}
    /\ \A r \in RowsFor(bls_job_data, sLast.code) :
         r.last_updated = IF sLast.data[1].last_updated = None
                          THEN strftime(now)
                          ELSE sLast.data[1].last_updated[1]

\* a record stored on the first day has been updated, on a later day, by a
\* save that passed no date: it carries the later day
C8_Witness ==
  /\ sLast.op = "save"
  /\ sLast.ok
  /\ sLast.data[1].last_updated = None
  /\ now # StartDate
  /\ nextId = 2
  /\ \E r \in RowsFor(bls_job_data, sLast.code) : r.last_updated = strftime(now)

---------------------------------------------------------------------------
(* Claims about the fetcher *)

\* the number of times x occurs in the list l
Count(l, x) == Cardinality({i \in 1..Len(l) : l[i] = x})

\* b is a reordering of a
SameIds(a, b) ==
  /\ Len(a) = Len(b)
  /\ \A i \in 1..Len(a) : Count(a, a[i]) = Count(b, a[i])

\* C9: with a credential configured, every get_bls_data call made after an
\* upstream response was received for the same series ids, in any order, and
\* the same years returns that response and posts no request.
C9_CachedResponseReplayed ==
  [][ \A i \in 1..Len(fLast'.calls) : \A h \in received :
        ( /\ Truthy(BLS_API_KEY)
          /\ SameIds(h.series_ids, fLast'.calls[i].series_ids)
          /\ h.start_year = fLast'.calls[i].start_year
          /\ h.end_year = fLast'.calls[i].end_year )
        => ( /\ fLast'.calls[i].data = h.data
             /\ ~fLast'.calls[i].posted ) ]_fetchVars

\* a call with the two series in one order is answered, without a request,
\* with the response received for them in the other order
C9_Witness ==
  /\ Truthy(BLS_API_KEY)
  /\ fLast.op = "get_bls_data"
  /\ fLast.calls[1].series_ids = <<SERIES_15_1252, SERIES_11_9111>>
  /\ ~fLast.calls[1].posted
  /\ \E h \in received :
       /\ h.series_ids = <<SERIES_11_9111, SERIES_15_1252>>
       /\ h.start_year = fLast.calls[1].start_year
       /\ h.end_year = fLast.calls[1].end_year
       /\ h.data = fLast.calls[1].data
       /\ h.data.status = REQUEST_SUCCEEDED

\* C10: with no credential configured, get_occupation_data for a code of the
\* series mapping returns a success result with a latest value, built from
\* the sample series, and posts no request.
C10_SampleOccupationData ==
  ( /\ fLast.op = "get_occupation_data"
    /\ Mapped(fLast.occ_code)
    /\ ~Truthy(BLS_API_KEY) )
  => ( /\ fLast.result[1].status = "success"
       /\ fLast.result[1].latest_value # None
       /\ \A i \in 1..Len(fLast.calls) : ~fLast.calls[i].posted )

\* get_occupation_data was given the sample response for a mapped code, with
\* no request posted, and returned an error result with no latest value
C10_Witness ==
  /\ fLast.op = "get_occupation_data"
  /\ fLast.occ_code = <<"1","5","-","1","2","5","2">>
  /\ BLS_API_KEY = None
  /\ Len(fLast.calls) = 1
  /\ fLast.calls[1].data = SampleResponse(<<SERIES_15_1252>>)
  /\ ~fLast.calls[1].posted
  /\ fLast.result[1].status = "error"
  /\ fLast.result[1].latest_value = None

---------------------------------------------------------------------------
(* Claims about risk scoring *)

\* C11, as stated: for every category that is no key of the risk score
\* table, calculate_ai_risk returns the risks (35.0, 55.0) and the tier
\* Moderate.
C11_DefaultIsModerate ==
  (kResult # None /\ kCategory \notin RiskKeys)
  => ( /\ kResult[1].year_1_risk = 35
       /\ kResult[1].year_5_risk = 55
       /\ kResult[1].risk_category = "Moderate" )

\* C11, amended: for every category that is no key of the risk score table,
\* calculate_ai_risk returns the risks (35.0, 55.0) and the tier High.
C11_DefaultIsHigh ==
  (kResult # None /\ kCategory \notin RiskKeys)
  => ( /\ kResult[1].year_1_risk = 35
       /\ kResult[1].year_5_risk = 55
       /\ kResult[1].risk_category = "High" )

\* the category of an unmapped code was scored
C11_Witness ==
  /\ kResult # None
  /\ kCategory = "General"
  /\ kCategory \notin RiskKeys
  /\ kResult[1].year_5_risk = 55

\* C12: for every category, the tier calculate_ai_risk returns is Low iff
\* year_5_risk < 30, Moderate iff 30 <= year_5_risk < 50, High iff
\* 50 <= year_5_risk < 70, and Very High iff year_5_risk >= 70.
C12_TierFromYear5 ==
  kResult # None =>
    LET r == kResult[1] IN
      /\ r.risk_category \in {"Low", "Moderate", "High", "Very High"}
      /\ r.risk_category = "Low" <=> r.year_5_risk < 30
      /\ r.risk_category = "Moderate" <=> (30 <= r.year_5_risk /\ r.year_5_risk < 50)
      /\ r.risk_category = "High" <=> (50 <= r.year_5_risk /\ r.year_5_risk < 70)
      /\ r.risk_category = "Very High" <=> r.year_5_risk >= 70

\* a score of exactly 70 was put in the tier Very High
C12_Witness ==
  /\ kResult # None
  /\ kCategory = "Office and Administrative Support"
  /\ kResult[1].year_5_risk = 70
  /\ kResult[1].risk_category = "Very High"

---------------------------------------------------------------------------
(* Claims about concurrent find_occupation_code calls *)

\* every call has returned or raised
AllReturned == \A t \in Threads : tPc[t] \in {"done", "raised"}

\* the code of an entry of the table that matches std_title, the code of a
\* fallback candidate for job_title, or the sentinel
ValidCode(soc_code, job_title, std_title) ==
  \/ \E i \in 1..Len(JOB_TITLE_TO_SOC) :
       /\ JOB_TITLE_TO_SOC[i].code = soc_code
       /\ \/ JOB_TITLE_TO_SOC[i].key = std_title
          \/ PartialMatch(JOB_TITLE_TO_SOC[i].key, std_title)
  \/ \E i \in 1..Len(search_occupations(job_title)) :
       search_occupations(job_title)[i].code = soc_code
  \/ soc_code = UNKNOWN_CODE

\* C13: a find_occupation_code call that scans the table while another call
\* inserts a fallback discovery completes with a valid result: no call
\* raises, and a call that returned gave the code of a matching entry, of a
\* fallback candidate, or the sentinel.
C13_ScanSurvivesInsertion ==
  \A t \in Threads :
    /\ tPc[t] # "raised"
    /\ tPc[t] = "done" => ValidCode(tResult[t].soc_code, tTitle[t], tStd[t])

\* a scan for a title nothing matches was cut short by RuntimeError after the
\* other call inserted its discovery
C13_Witness ==
  \E t \in Threads : \E u \in Threads \ {t} :
    /\ tPc[t] = "raised"
    /\ tTitle[t] = <<"a","s","t","r","o","n","a","u","t">>
    /\ tPos[t] > 0
    /\ tPc[u] = "done"
    /\ tResult[u].path = "search"
    /\ Len(JOB_TITLE_TO_SOC) = tUsed[t] + 1

\* the number of items of the table under a key
KeyCount(table, key) == Cardinality({i \in 1..Len(table) : table[i].key = key})

\* C14: once all concurrent calls have returned, every entry a call
\* discovered through the fallback is in the table, once, with its code, and
\* the table holds one more item for each discovered title.
C14_NoDiscoveryLost ==
  AllReturned =>
    /\ \A d \in discovered :
         /\ KeyCount(JOB_TITLE_TO_SOC, d.key) = 1
         /\ DictGet(JOB_TITLE_TO_SOC, d.key) = d.code
    /\ Len(JOB_TITLE_TO_SOC)
         = Len(STATIC_JOB_TITLE_TO_SOC) + Cardinality({d.key : d \in discovered})

\* two calls have discovered different titles, and both have returned
C14_Witness ==
  /\ AllReturned
  /\ \A t \in Threads : tResult[t].path = "search"
  /\ tResult[1].soc_code # tResult[2].soc_code
  /\ Cardinality(discovered) = 2

---------------------------------------------------------------------------
(* Claims about concurrent save_bls_data_to_db calls *)

\* every call that started has committed
AllCommitted == \A w \in Savers : wPc[w] = "idle"

\* the field values of a row are those of a call's data
CarriesData(row, data) == row = RowOf(row.id, data, StampDate(data, StartDate))

\* C15: once the concurrent save_bls_data_to_db calls have committed, the
\* store holds exactly one record for each saved code, carrying the field
\* values of one of the calls for that code.
C15_OneRecordAfterConcurrentSaves ==
  AllCommitted =>
    \A data \in saved :
      /\ Cardinality(RowsFor(bls_job_data, data.occupation_code)) = 1
      /\ \A row \in RowsFor(bls_job_data, data.occupation_code) :
           \E d \in saved :
             d.occupation_code = data.occupation_code /\ CarriesData(row, d)

\* two first saves of one code have both committed: each ran its SELECT
\* before the other committed, and each inserted
C15_Witness ==
  /\ AllCommitted
  /\ \A w \in Savers : wCalls[w] = 1
  /\ wData[1][1].occupation_code = wData[2][1].occupation_code
  /\ Cardinality(RowsFor(bls_job_data, wData[1][1].occupation_code)) = 2

---------------------------------------------------------------------------
(* Claims about the pipeline *)

\* the last call, and the statistics step of it
Called == pLast.op = "get_complete_job_data"

Step == pLast.fetched[1]

\* what get_bls_data_from_db would return now for the code of the last
\* call, no store operation raising
ReadNow == get_bls_data_from_db(engine, bls_job_data, Step.found.soc_code, now, FALSE)

\* the columns of a row are the fields of the dict that was saved
RowCarries(row, bls_data) ==
  DictOfRow(row) = [bls_data EXCEPT !.id = Some(row.id)]

\* C16: fetch_bls_data calls the external fetchers and saves iff
\* get_bls_data_from_db returned no record. On a hit it returns the stored
\* record, fetches nothing and leaves the store unchanged; on a miss it calls
\* get_occupation_data and get_employment_projection, builds a record dated
\* today and saves it, and when the save succeeded a read of the same code,
\* while that date is under 90 days old, returns the record.
C16_FetchAndSaveOnlyOnMiss ==
  Called =>
    /\ Step.db_data # None =>
         /\ Step.bls_data = DictOfRow(Step.db_data[1])
         /\ Step.occupation_data = None
         /\ Step.projection_data = None
         /\ Step.posted = 0
         /\ Step.saved = None
         /\ ~pLast.store_changed
    /\ Step.db_data = None =>
         /\ Step.occupation_data # None
         /\ Step.projection_data # None
         /\ Step.saved # None
         /\ Step.bls_data.id = None
         /\ Step.bls_data.last_updated = Some(strftime(pLast.today))
         /\ (Step.saved = Some(TRUE) /\ WithinDays(strftime(pLast.today), now, 89)) =>
               \A d \in ReadNow : d # None /\ RowCarries(d[1], Step.bls_data)

\* a call found the record an earlier call had saved, with a credential set,
\* and posted nothing
C16_Witness ==
  /\ Called
  /\ Truthy(BLS_API_KEY)
  /\ pLast.job_title = <<"S","o","f","t","w","a","r","e"," ","E","n","g","i","n","e","e","r">>
  /\ Step.db_data # None
  /\ Step.bls_data.median_wage # None
  /\ Step.posted = 0

\* the keys of the dict get_complete_job_data returns
ResultKeys ==
  {"job_title", "occupation_code", "job_category", "employment",
   "projected_employment", "employment_change_percent", "annual_job_openings",
   "median_wage", "year_1_risk", "year_5_risk", "risk_category",
   "risk_factors", "protective_factors", "analysis", "last_updated"}

\* C17: for a code absent from the series mapping get_occupation_data
\* returns a labelled error result and posts no request, for a code absent
\* from the projection table get_employment_projection returns a labelled
\* error result, and get_complete_job_data for a title resolving to such a
\* code returns the full result structure with the missing statistics null.
C17_UnmappedCodeGivesNulls ==
  Called =>
    LET code == Step.found.soc_code
        result == pLast.result[1]
    IN /\ (Step.occupation_data # None /\ ~Mapped(code)) =>
            /\ Step.occupation_data[1].status = "error"
            /\ Step.occupation_data[1].message # <<>>
            /\ Step.posted = 0
       /\ (Step.projection_data # None /\ ~Projected(code)) =>
            /\ Step.projection_data[1].status = "error"
            /\ Step.projection_data[1].message # <<>>
       /\ DOMAIN result = ResultKeys
       /\ ~Mapped(code) => result.median_wage = None
       /\ ~Projected(code) =>
            /\ result.employment = None
            /\ result.projected_employment = None
            /\ result.employment_change_percent = None
            /\ result.annual_job_openings = None

\* a title whose code has a projection and no series was fetched with a
\* credential set: the wage is null, the employment is not
C17_Witness ==
  /\ Called
  /\ Truthy(BLS_API_KEY)
  /\ pLast.job_title = <<"N","u","r","s","e">>
  /\ Step.db_data = None
  /\ Step.occupation_data[1].status = "error"
  /\ pLast.result[1].median_wage = None
  /\ pLast.result[1].employment # None

\* no store, no answer from the upstream, and a title that resolves to
\* nothing
TotalFailure ==
  /\ Called
  /\ ~engine
  /\ Step.posted = 0
  /\ pLast.result[1].occupation_code = UNKNOWN_CODE

\* C18: on total failure get_complete_job_data returns a structure that
\* contains an explicit error field.
C18_ErrorFieldOnTotalFailure ==
  TotalFailure => "error" \in DOMAIN pLast.result[1]

\* on total failure the call returned the usual structure, its statistics
\* null, and no error field
C18_Witness ==
  /\ TotalFailure
  /\ DOMAIN pLast.result[1] = ResultKeys
  /\ pLast.result[1].employment = None
  /\ pLast.result[1].median_wage = None

\* C19: with no engine, or when the store operation raises,
\* get_bls_data_from_db returns None and save_bls_data_to_db returns False,
\* the store is left as it was, and get_complete_job_data returns a result
\* built from the data the fetchers returned in that call.
C19_StoreUnavailable ==
  Called =>
    /\ (~engine \/ pLast.db_fault) => Step.db_data = None
    /\ ((~engine \/ pLast.save_fault) /\ Step.saved # None) =>
         /\ Step.saved = Some(FALSE)
         /\ ~pLast.store_changed
    /\ (~engine \/ (pLast.db_fault /\ pLast.save_fault)) =>
         LET result == pLast.result[1] IN
           /\ Step.occupation_data # None /\ Step.projection_data # None
           /\ result.median_wage = Step.occupation_data[1].latest_value
           /\ result.employment =
                (IF Step.projection_data[1].projections = None THEN None
                 ELSE Some(Step.projection_data[1].projections[1].current_employment))
           /\ result.last_updated = Some(strftime(pLast.today))

\* with an engine, both store operations of a call raised: the call returned
\* the wage and the employment it had fetched, and nothing was stored
C19_Witness ==
  /\ Called
  /\ engine /\ pLast.db_fault /\ pLast.save_fault
  /\ Step.saved = Some(FALSE)
  /\ pLast.result[1].median_wage # None
  /\ pLast.result[1].employment # None
  /\ RowsFor(bls_job_data, Step.found.soc_code) = {}

---------------------------------------------------------------------------
(* Claims about failed requests *)

\* the request of a call was posted and no response to it was received
TransportFailed(call, responses) ==
  /\ call.posted
  /\ ~\E h \in responses :
        /\ h.series_ids = call.series_ids
        /\ h.start_year = call.start_year
        /\ h.end_year = call.end_year

\* the same arguments again, whatever the upstream does, post a request
PostsAgain(call) ==
  \A upstream \in Upstream(call.series_ids) :
    get_bls_data(BLS_API_KEY, _api_cache, call.series_ids, call.start_year,
                 call.end_year, upstream).posted

\* C20: a get_bls_data call whose request met a transport failure returns
\* a result with status "error" and a message, leaves _api_cache as it was
\* before the call, and a call with the same arguments made next posts a
\* request again.
C20_TransportFailureNotCached ==
  /\ [](\A i \in 1..Len(fLast.calls) :
          TransportFailed(fLast.calls[i], received) =>
            /\ fLast.calls[i].data.status = "error"
            /\ fLast.calls[i].data.message # <<>>
            /\ fLast.calls[i].data.Results = None
            /\ PostsAgain(fLast.calls[i]))
  /\ [][ (\E i \in 1..Len(fLast'.calls) :
            TransportFailed(fLast'.calls[i], received'))
         => _api_cache' = _api_cache ]_fetchVars

\* a request failed while the response to an earlier request is cached: the
\* call returned the error result and the cache holds what it held
C20_Witness ==
  /\ fLast.op = "get_bls_data"
  /\ TransportFailed(fLast.calls[1], received)
  /\ fLast.calls[1].data = ErrorResponse(<<"connection refused">>)
  /\ _api_cache # {}
  /\ \A item \in _api_cache : item.data.status # "error"

---------------------------------------------------------------------------
(* Claims about the trend and the category risk *)

\* a / b truncated toward zero, for b > 0
TruncDiv(a, b) == IF a >= 0 THEN a \div b ELSE 0 - ((0 - a) \div b)

\* current + i * (projected - current) / (n - 1), truncated toward zero
Interpolated(current, projected, n, i) ==
  TruncDiv(current * (n - 1) + i * (projected - current), n - 1)

\* C21: for current and projected present and not 0 and num_years >= 2,
\* generate_employment_trend returns num_years integers, the i-th (from 0)
\* being current + i*(projected - current)/(num_years - 1) truncated toward
\* zero; the first is current, the last is projected, and the list never
\* falls when projected > current and never rises when projected < current.
C21_TrendInterpolates ==
  ( /\ jLast.op = "generate_employment_trend"
    /\ Present(jCurrent) /\ Present(jProjected)
    /\ jYears >= 2 )
  => LET trend == jLast.trend
         current == jCurrent[1]
         projected == jProjected[1]
     IN /\ Len(trend) = jYears
        /\ \A i \in 0..(jYears - 1) :
             trend[i + 1] = Interpolated(current, projected, jYears, i)
        /\ trend[1] = current
        /\ trend[jYears] = projected
        /\ projected > current => \A i \in 1..(jYears - 1) : trend[i] <= trend[i + 1]
        /\ projected < current => \A i \in 1..(jYears - 1) : trend[i] >= trend[i + 1]

\* the trend of 8 years from 30 to 1 ends in 0
C21_Witness ==
  /\ jLast.op = "generate_employment_trend"
  /\ jCurrent = Some(30) /\ jProjected = Some(1) /\ jYears = 8
  /\ jLast.trend = <<30, 25, 21, 17, 13, 9, 5, 0>>

\* the two employment figures a call works on: those drawn, or the defaults
\* of format_bls_api_data when bls_data has no such keys
Endpoints ==
  IF jLast.op = "format_bls_api_data" /\ ~jKeys
  THEN [current |-> Some(0), projected |-> Some(0)]
  ELSE [current |-> jCurrent, projected |-> jProjected]

\* C22: if the current or the projected employment is absent, the trend is
\* empty: the list generate_employment_trend returns, and the employment of
\* the trend_data of format_database_job_data and of format_bls_api_data.
C22_AbsentEndpointEmptyTrend ==
  ( /\ jLast.op \in {"generate_employment_trend", "format_database_job_data",
                     "format_bls_api_data"}
    /\ (Endpoints.current = None \/ Endpoints.projected = None) )
  => jLast.trend = <<>>

\* generate_employment_trend was given a current employment and no projected
\* one, for eleven years, and returned the current employment alone
C22_Witness ==
  /\ jLast.op = "generate_employment_trend"
  /\ jCurrent = Some(100) /\ jProjected = None /\ jYears = 11
  /\ jLast.trend = <<100>>

\* C26: in every risk assessment, of calculate_ai_risk and of
\* calculate_ai_risk_from_category, the tier returned is the tier of the
\* year_5_risk returned: Low below 30, Moderate from 30, High from 50, Very
\* High from 70.
C26_TierDerivedFromYear5 ==
  /\ kResult # None =>
       kResult[1].risk_category = RiskCategoryOf(kResult[1].year_5_risk)
  /\ jLast.risk_data # None =>
       jLast.risk_data[1].risk_category = RiskCategoryOf(jLast.risk_data[1].year_5_risk)

\* the category of the codes 25-, "Educational Instruction", was given a
\* year_5_risk of 30 and the tier Low
C26_Witness ==
  /\ jLast.op = "calculate_ai_risk_from_category"
  /\ jCategory = <<"E","d","u","c","a","t","i","o","n","a","l"," ","I","n","s","t","r","u","c","t","i","o","n">>
  /\ jLast.risk_data[1].year_5_risk = 30
  /\ jLast.risk_data[1].risk_category = "Low"

---------------------------------------------------------------------------
(* Claims about the order of the table and about repeated resolution *)

\* the items of the table that contain std_title or are contained in it
PartialItems(table, std_title) ==
  { i \in 1..Len(table) :
      Contains(table[i].key, std_title) \/ Contains(std_title, table[i].key) }

\* C24: in every reachable state of the table, which is the static entries
\* followed by the discoveries in the order they were added, a title whose
\* normalized form is a key gets the code of that key, by the direct lookup,
\* whatever other keys contain it; a title whose normalized form is no key
\* but is contained in a key, or contains one, gets the code of the first
\* such item of the table.
C24_ExactThenFirstInOrder ==
  /\ SubSeq(JOB_TITLE_TO_SOC, 1, Len(STATIC_JOB_TITLE_TO_SOC)) = STATIC_JOB_TITLE_TO_SOC
  /\ \A job_title \in ResolveTitles :
       \E r \in {find_occupation_code(JOB_TITLE_TO_SOC, job_title)} :
         LET std_title == standardize_job_title(job_title)
             exact == { i \in 1..Len(JOB_TITLE_TO_SOC) : JOB_TITLE_TO_SOC[i].key = std_title }
             partial == PartialItems(JOB_TITLE_TO_SOC, std_title)
         IN /\ exact # {} =>
                 /\ r.path = "direct"
                 /\ \A i \in exact : r.soc_code = JOB_TITLE_TO_SOC[i].code
            /\ (exact = {} /\ partial # {}) =>
                 /\ r.path = "partial"
                 /\ r.soc_code = JOB_TITLE_TO_SOC[Min(partial)].code

\* "managers" is contained in two discoveries with different codes, and was
\* given the code of the one added first
C24_Witness ==
  /\ rTitle = <<"m","a","n","a","g","e","r","s">>
  /\ rResult.path = "partial"
  /\ \E i, j \in PartialItems(JOB_TITLE_TO_SOC, rTitle) :
       /\ Len(STATIC_JOB_TITLE_TO_SOC) < i /\ i < j
       /\ JOB_TITLE_TO_SOC[i].code # JOB_TITLE_TO_SOC[j].code
       /\ rResult.soc_code = JOB_TITLE_TO_SOC[i].code

\* the candidates of the sample SOC list that were added to the table
Discovered(table) ==
  { j \in 1..Len(soc_codes) :
      \E i \in (Len(STATIC_JOB_TITLE_TO_SOC) + 1)..Len(table) :
        /\ table[i].key = standardize_job_title(soc_codes[j].title)
        /\ table[i].code = soc_codes[j].code }

\* C25: once the fallback search has resolved a title to the candidate
\* (T, c), find_occupation_code(T) returns c by the direct lookup, in the
\* state the discovery left and in every later state, with no fallback
\* search.
C25_DiscoveryFoundDirectly ==
  /\ rResult.path = "search" =>
       \E j \in Discovered(JOB_TITLE_TO_SOC) :
         soc_codes[j].title = rResult.title /\ soc_codes[j].code = rResult.soc_code
  /\ \A j \in Discovered(JOB_TITLE_TO_SOC) :
       \E r \in {find_occupation_code(JOB_TITLE_TO_SOC, soc_codes[j].title)} :
         /\ r.path = "direct"
         /\ r.soc_code = soc_codes[j].code
         /\ r.table = JOB_TITLE_TO_SOC

\* "Pharmacist" was resolved by the fallback search to ("Pharmacists",
\* 29-1051), other titles were resolved after it, and "pharmacists" was then
\* found by the direct lookup
C25_Witness ==
  /\ rTitle = <<"p","h","a","r","m","a","c","i","s","t","s">>
  /\ rResult.path = "direct"
  /\ rResult.soc_code = <<"2","9","-","1","0","5","1">>
  /\ Len(JOB_TITLE_TO_SOC) >= Len(STATIC_JOB_TITLE_TO_SOC) + 2
  /\ JOB_TITLE_TO_SOC[Len(STATIC_JOB_TITLE_TO_SOC) + 1].key = rTitle

\* C27: once a call for a title has returned a code other than the sentinel,
\* every later call for that title returns the same code, whatever titles
\* were resolved and whatever discoveries were added in between. Taken a
\* step at a time: the table the next call leaves, whatever its title,
\* resolves the title of this call to the code this call returned.
C27_ResolutionStable ==
  [][ (rResult.path # "none" /\ rResult.soc_code # UNKNOWN_CODE) =>
        find_occupation_code(JOB_TITLE_TO_SOC', rTitle).soc_code = rResult.soc_code
    ]_resolverVars

\* "Business Teachers, Postsecondary" gets 25-1011 by the direct lookup of
\* the discovery "postsecondary" added, where the static table alone gives it
\* 25-2021 by the item "teacher"
C27_Witness ==
  /\ rTitle = <<"B","u","s","i","n","e","s","s"," ","T","e","a","c","h","e","r","s",","," ","P","o","s","t","s","e","c","o","n","d","a","r","y">>
  /\ rResult.path = "direct"
  /\ rResult.soc_code = <<"2","5","-","1","0","1","1">>
  /\ \E r \in {find_occupation_code(STATIC_JOB_TITLE_TO_SOC, rTitle)} :
       r.path = "partial" /\ r.soc_code = <<"2","5","-","2","0","2","1">>

---------------------------------------------------------------------------
(* Claims about what the pipeline stores and serves again *)

\* a result of a fetcher that reports success
Succeeded(result) == result # None /\ result[1].status = "success"

\* C23: across any sequence of get_complete_job_data calls no record is kept
\* under the sentinel code, and a call whose fetchers returned an error
\* result leaves the store as it was.
C23_RecordOnlyAfterSuccess ==
  /\ \A row \in bls_job_data : row.occupation_code # UNKNOWN_CODE
  /\ (Called /\ pLast.store_changed) =>
       Succeeded(Step.occupation_data) /\ Succeeded(Step.projection_data)

\* a call for a title nothing matches, both fetchers returning an error
\* result, stored a record under the sentinel code with every statistic null
C23_Witness ==
  /\ Called
  /\ pLast.store_changed
  /\ Step.found.soc_code = UNKNOWN_CODE
  /\ ~Succeeded(Step.occupation_data) /\ ~Succeeded(Step.projection_data)
  /\ \E row \in bls_job_data :
       /\ row.occupation_code = UNKNOWN_CODE
       /\ row.job_title = pLast.job_title
       /\ row.current_employment = None
       /\ row.median_wage = None

\* C28: with the store available, a call for a title that resolves to the
\* sentinel code returns a result whose job_title is that title, and the
\* record it is served, if any, is one stored for that title.
C28_UnmappedTitleKeepsItsTitle ==
  (Called /\ engine /\ ~pLast.db_fault /\ ~pLast.save_fault
          /\ pLast.first.soc_code = UNKNOWN_CODE) =>
    /\ pLast.result[1].job_title = pLast.job_title
    /\ Step.db_data # None => Step.db_data[1].job_title = pLast.job_title

\* the call for "zookeeper" was served the record stored for "astronaut"
C28_Witness ==
  /\ Called
  /\ engine /\ ~pLast.db_fault /\ ~pLast.save_fault
  /\ pLast.job_title = <<"z","o","o","k","e","e","p","e","r">>
  /\ pLast.first.soc_code = UNKNOWN_CODE
  /\ Step.db_data # None
  /\ Step.db_data[1].job_title = <<"a","s","t","r","o","n","a","u","t">>
  /\ pLast.result[1].job_title = <<"a","s","t","r","o","n","a","u","t">>

\* the call posted a request and the upstream gave no answer
UpstreamFailed(job_title) ==
  /\ Called /\ pLast.job_title = job_title
  /\ Step.posted > 0
  /\ ~pLast.upstream_ok

\* a call for the title while the upstream answers
UpstreamRecovered(job_title) ==
  /\ Called /\ pLast.job_title = job_title
  /\ pLast.upstream_ok

\* C29: after a call for a title whose upstream fetch failed, a later call
\* for that title made while the upstream answers returns the wage the
\* upstream gives, not the null wage of the failed attempt. Taken at the
\* next call: when it is for the same title and the upstream answers, its
\* result has a wage.
C29_RecoveredUpstreamIsUsed ==
  [][ \A job_title \in PipeTitles :
        (UpstreamFailed(job_title) /\ UpstreamRecovered(job_title)') =>
          pLast'.result[1].median_wage # None
    ]_pipeVars

\* a call that posts its request to an upstream that answers returns a wage
FetchedWageWhenUp ==
  (Called /\ Step.posted > 0 /\ pLast.upstream_ok) => pLast.result[1].median_wage # None

\* with a credential set and the upstream answering, a call on the day of
\* the failed attempt was served the stored record: the wage is null
C29_Witness ==
  /\ Called
  /\ Truthy(BLS_API_KEY)
  /\ pLast.upstream_ok
  /\ pLast.job_title = <<"S","o","f","t","w","a","r","e"," ","E","n","g","i","n","e","e","r">>
  /\ Step.db_data # None
  /\ Step.db_data[1].last_updated = strftime(now)
  /\ Step.posted = 0
  /\ pLast.result[1].median_wage = None
  /\ pLast.result[1].employment # None

---------------------------------------------------------------------------
(* Claims about concurrent get_complete_job_data calls *)

\* C30: in every call, whatever other calls ran meanwhile, the
\* occupation_code of the result is the code fetch_bls_data resolved the
\* title to, under which the statistics of the result were read, fetched
\* and stored.
C30_OneCodeInACall ==
  gLast.op = "get_complete_job_data" =>
    /\ gLast.result[1].occupation_code = gLast.found.soc_code
    /\ gLast.stored_under # None =>
         gLast.stored_under[1] = {gLast.result[1].occupation_code}

\* a call for "Business Teachers, Postsecondary" resolved its title to
\* 25-2021, another call added the discovery, and the statistics of the
\* first call were stored under 25-1011
C30_Witness ==
  /\ gLast.op = "get_complete_job_data"
  /\ gLast.job_title = <<"B","u","s","i","n","e","s","s"," ","T","e","a","c","h","e","r","s",","," ","P","o","s","t","s","e","c","o","n","d","a","r","y">>
  /\ gLast.result[1].occupation_code = <<"2","5","-","2","0","2","1">>
  /\ gLast.found.soc_code = <<"2","5","-","1","0","1","1">>
  /\ gLast.stored_under = Some({<<"2","5","-","1","0","1","1">>})
  /\ \E row \in bls_job_data : row.occupation_code = <<"2","5","-","1","0","1","1">>

====
